---------------------------- MODULE Spec2Model ----------------------------
(***************************************************************************)
(* Model of the multi-agent orchestration core                             *)
(* (src/agents/orchestrator.py, src/agents/base_agent.py and the four      *)
(* agents).                                                                *)
(*                                                                         *)
(* A text is a sequence of atoms.  An atom is one character (" ", "|",     *)
(* "A") or an indivisible fragment of text that holds no "|" and neither   *)
(* starts nor ends with whitespace ("No relevant scripture").  Python's    *)
(* None for an optional string is the empty sequence <<>>, a present       *)
(* string s is <<s>>.                                                      *)
(*                                                                         *)
(* process_query runs on one asyncio event loop.  The variable cpu names   *)
(* the task that holds the loop's only thread; a task gives the thread up  *)
(* only at an await that really suspends.                                  *)
(***************************************************************************)
EXTENDS Naturals, Integers, Sequences, FiniteSets, TLC

VARIABLES
    pc,             \* position of the process_query coroutine
    entry,          \* "process_query" or "quick_response": how the call came in
    useAll,         \* the use_all_agents argument
    hung,           \* the agents whose blocking backend call never returns
    ready,          \* the event loop's FIFO of tasks created and not yet started
    task,           \* per agent: "none", "ready", "blocked", "awaiting", "done"
    cpu,            \* who holds the event loop's thread: "none", "main" or an agent
    calls,          \* per agent: how many times this call entered execute
    procOut,        \* per agent: what its process call did (return or raise)
    taskResult,     \* per agent: what gather collected for its task
    agentResponses, \* valid_responses of _query_all_agents
    slots,          \* the four slots rendered into the verification prompt
    vOut,           \* what the verification completion call did
    verified,       \* verified_answer
    cOut,           \* what the chunking completion call did
    messages,       \* messages of process_query
    citations,      \* citations of process_query
    saveLog,        \* the save_message calls made, in order
    result,         \* <<>> until process_query returns, then <<OrchestrationResult>>
    backendOut,     \* per agent: what its backend did in this call
    returned,       \* the OrchestrationResults of the calls made before this one
    input,          \* the fixed inputs of a run: the fakes, the parts of the text
    output,         \* what the function or handler under study returned
    agentObj,       \* per agent: the fields execute writes on the agent object
    db              \* the rows of the users, conversations and messages tables

vars == <<pc, entry, useAll, hung, ready, task, cpu, calls, procOut, taskResult,
          agentResponses, slots, vOut, verified, cOut, messages, citations,
          saveLog, result, backendOut, returned, input, output, agentObj, db>>

---------------------------------------------------------------------------
(* Bounds of the model *)

\* longest chunking output enumerated exhaustively by SpecChunk
MaxChunkLen == 6

\* most parts of a verified answer enumerated by SpecCite
MaxParts == 3

\* most matches of the scripture index enumerated by SpecAgents
MaxMatches == 3

\* most web results enumerated by SpecAgents
MaxResults == 6

(* Program constants *)

\* settings.MAX_MESSAGES_PER_RESPONSE
MAX_MESSAGES_PER_RESPONSE == 6

---------------------------------------------------------------------------
(* Texts *)

IsSpace(c) == c \in {" ", "\n", "\t"}

RECURSIVE LStrip(_)
LStrip(s) ==
    IF s = <<>> THEN s
    ELSE IF IsSpace(Head(s)) THEN LStrip(Tail(s)) ELSE s

RECURSIVE RStrip(_)
RStrip(s) ==
    IF s = <<>> THEN s
    ELSE IF IsSpace(s[Len(s)]) THEN RStrip(SubSeq(s, 1, Len(s) - 1)) ELSE s

\* str.strip()
Strip(s) == RStrip(LStrip(s))

\* sub in s
Contains(s, sub) ==
    \E i \in 1..(Len(s) - Len(sub) + 1) : SubSeq(s, i, i + Len(sub) - 1) = sub

\* x or y, for strings
OrElse(x, y) == IF x = <<>> THEN y ELSE x

Delimiter == <<"|", "|", "|">>

SetMin(S) == CHOOSE x \in S : \A y \in S : x <= y

\* result.split("|||"): the leftmost occurrence first, occurrences not overlapping
RECURSIVE Split(_)
Split(s) ==
    LET hits == {i \in 1..(Len(s) - 2) : SubSeq(s, i, i + 2) = Delimiter}
    IN  IF hits = {} THEN <<s>>
        ELSE LET i == SetMin(hits)
             IN  <<SubSeq(s, 1, i - 1)>> \o Split(SubSeq(s, i + 3, Len(s)))

\* "".join(ms): the messages run together
RECURSIVE JoinNoSpace(_)
JoinNoSpace(ms) ==
    IF ms = <<>> THEN <<>> ELSE Head(ms) \o JoinNoSpace(Tail(ms))

\* " ".join(messages)
RECURSIVE JoinSpace(_)
JoinSpace(ms) ==
    IF ms = <<>> THEN <<>>
    ELSE IF Len(ms) = 1 THEN ms[1]
    ELSE ms[1] \o <<" ">> \o JoinSpace(Tail(ms))

\* the first n elements of a sequence: ms[:n]
Take(ms, n) == SubSeq(ms, 1, IF Len(ms) < n THEN Len(ms) ELSE n)

\* [f(x) for x in ms if keep(x)] for f = strip, keep = non-empty after strip
RECURSIVE StripAndDrop(_)
StripAndDrop(ms) ==
    IF ms = <<>> THEN <<>>
    ELSE IF Strip(Head(ms)) # <<>>
         THEN <<Strip(Head(ms))>> \o StripAndDrop(Tail(ms))
         ELSE StripAndDrop(Tail(ms))

---------------------------------------------------------------------------
(* Agents *)

Agents == {"rag_agent", "context_agent", "web_agent", "gemini_agent"}

\* the agents whose process holds the thread through a blocking backend call:
\* genai.embed_content and index.query, the SQLAlchemy session,
\* model.generate_content.  Only WebSearchAgent awaits its backend (httpx).
SyncAgents == {"rag_agent", "context_agent", "gemini_agent"}

\* the name each agent passes to BaseAgent.__init__
AgentName(a) ==
    CASE a = "rag_agent"     -> <<"RAG", "_", "Scripture", "_", "Agent">>
      [] a = "context_agent" -> <<"Context", "_", "Memory", "_", "Agent">>
      [] a = "web_agent"     -> <<"Web", "_", "Search", "_", "Agent">>
      [] a = "gemini_agent"  -> <<"Gemini", "_", "AI", "_", "Agent">>

NoResult == [response |-> <<>>, confidence |-> 0, sources |-> <<>>]

\* a call that returned r
Return(r) == [kind |-> "return", result |-> r, msg |-> ""]

\* a call that raised an exception e with str(e) = m
Raise(m) == [kind |-> "raise", result |-> NoResult, msg |-> m]

NoScriptureMarker == <<"No relevant scripture">>

\* "No relevant scripture passages found for this query."
NoScriptureResponse == <<"No relevant scripture", " ", "passages found for this query.">>

\* one passage formatted by _format_response: "<source>:\n<text>"
PassageResponse == <<"Bhagavad Gita 2.47", ":", "\n", "You have a right to action alone">>

\* a passage whose text holds a citation sentence
CitingPassageResponse ==
    <<"Gita commentary", ":", "\n", "As mentioned in", " ", "Bhagavad Gita", ",", " ",
      "Chapter", " ", "2", ",", " ", "Verse", " ", "47", " ", "act">>

\* a filter that keeps the passage whose score is the threshold itself
SurvivesAtThreshold(match) == match.score >= 700

\* match.score > 0.7, the score counted in thousandths
Survives(match) == match.score > 700

\* int(score * 100) rounded to the nearest whole number instead
ScoreToConfidenceRounded(score) == (score * 100 + 500) \div 1000

\* int(passages[0]["score"] * 100), the score counted in thousandths
ScoreToConfidence(score) == (score * 100) \div 1000

\* _format_response: "<source>:\n<text>" per passage, joined by blank lines; a
\* passage without source metadata has the source ""
RECURSIVE FormatPassages(_)
FormatPassages(passages) ==
    IF passages = <<>> THEN <<>>
    ELSE Head(passages).source \o <<":", "\n", Head(passages).text>>
         \o (IF Len(passages) = 1 THEN <<>>
             ELSE <<"\n", "\n">> \o FormatPassages(Tail(passages)))

\* the loop and the result of RAGAgent.process on the matches the index returned
RagOnMatches(matches) ==
    LET passages == SelectSeq(matches, Survives)
        sources == [i \in 1..Len(passages) |->
                       IF passages[i].source = <<>> THEN "Unknown"
                       ELSE passages[i].source[1]]
    IN  IF passages # <<>>
        THEN Return([response |-> FormatPassages(passages),
                     confidence |-> ScoreToConfidence(passages[1].score),
                     sources |-> sources])
        ELSE Return([response |-> NoScriptureResponse, confidence |-> 0,
                     sources |-> sources])

\* RAGAgent.process, by what the embedding and index backends did
RagProcess(b) ==
    CASE b = "error"   -> Raise("index unreachable")
      [] b = "nomatch" -> Return([response |-> NoScriptureResponse,
                                  confidence |-> 0, sources |-> <<>>])
      [] b = "match"   -> Return([response |-> PassageResponse,
                                  confidence |-> 85,
                                  sources |-> <<"Bhagavad Gita 2.47">>])
      [] b = "matchcite" -> Return([response |-> CitingPassageResponse,
                                    confidence |-> 91,
                                    sources |-> <<"Gita commentary">>])
      [] b = "given" -> RagOnMatches(input.matches)

\* _format_history of no message, and of a user and an assistant message
NoHistoryResponse == <<"No previous conversation.">>
HistoryResponse == <<"User", ":", " ", "hi", "\n", "Assistant", ":", " ", "hello">>

\* a History agent whose store error leaves process
ContextProcessRaises(b) ==
    CASE b = "dberror" -> Raise("store unreachable")
      [] b = "nouser" ->
            Return([response |-> <<"No previous conversation.">>, confidence |-> 0,
                    sources |-> <<"Conversation History">>])
      [] b = "stored" ->
            Return([response |-> <<"User", ":", " ", "hi">>, confidence |-> 90,
                    sources |-> <<"Conversation History">>])
      [] b = "history" ->
            Return([response |-> <<"User", ":", " ", "hi", "\n",
                                   "Assistant", ":", " ", "hello">>,
                    confidence |-> 90, sources |-> <<"Conversation History">>])

\* the messages the store holds: the saves it accepted, oldest first
StoredMessages == SelectSeq(saveLog, LAMBDA m : m.ok)

\* whether the store holds a message of the subscriber
StoreHasHistory == StoredMessages # <<>>

\* role.capitalize()
Capitalize(role) == IF role = "user" THEN "User" ELSE "Assistant"

\* _format_history: "<Role>: <content>" per message, joined by newlines
RECURSIVE FormatHistory(_)
FormatHistory(ms) ==
    IF ms = <<>> THEN <<>>
    ELSE <<Capitalize(Head(ms).role), ":", " ">> \o Head(ms).content
         \o (IF Len(ms) = 1 THEN <<>> ELSE <<"\n">> \o FormatHistory(Tail(ms)))

\* ContextAgent.process: a store error is caught in _get_conversation_history
\* and read as an empty history; "stored" is a read of the messages that the
\* saves of earlier calls left in the store
ContextProcess(b) ==
    CASE b \in {"dberror", "nouser"} ->
            Return([response |-> NoHistoryResponse, confidence |-> 0,
                    sources |-> <<"Conversation History">>])
      [] b = "stored" ->
            Return([response |-> FormatHistory(StoredMessages), confidence |-> 90,
                    sources |-> <<"Conversation History">>])
      [] b = "history" ->
            Return([response |-> HistoryResponse, confidence |-> 90,
                    sources |-> <<"Conversation History">>])

\* the links of the first five results
WebLinks == <<"https://example.org/1", "https://example.org/2", "https://example.org/3",
              "https://example.org/4", "https://example.org/5">>

\* a web search whose backend error leaves process
WebProcessRaises(b) ==
    CASE b = "httperror" -> Raise("search backend unreachable")
      [] b = "noresults" ->
            Return([response |-> <<"No web results found for this query.">>,
                    confidence |-> 0, sources |-> <<>>])
      [] b = "results" ->
            Return([response |-> <<"1", ".", " ", "Dharma", "\n", "Duty in the Gita">>,
                    confidence |-> 20, sources |-> <<"https://example.org/dharma">>])

NoWebResponse == <<"No web results found for this query.">>
WebResponse == <<"1", ".", " ", "Dharma", "\n", "Duty in the Gita">>

\* WebSearchAgent.process: a backend error is caught in _search and read as no
\* result
WebProcess(b) ==
    CASE b \in {"httperror", "noresults"} ->
            Return([response |-> NoWebResponse, confidence |-> 0, sources |-> <<>>])
      [] b = "results" ->
            Return([response |-> WebResponse, confidence |-> 20,
                    sources |-> <<"https://example.org/dharma">>])
      [] b = "given" ->
            IF input.results = 0
            THEN Return([response |-> NoWebResponse, confidence |-> 0, sources |-> <<>>])
            ELSE Return([response |-> WebResponse,
                         confidence |-> IF input.results * 20 < 100
                                        THEN input.results * 20 ELSE 100,
                         sources |-> Take(WebLinks, input.results)])

\* the letters, for str.lower()
UpperLetters ==
    <<"A", "B", "C", "D", "E", "F", "G", "H", "I", "J", "K", "L", "M", "N", "O", "P", "Q", "R", "S", "T", "U", "V", "W", "X", "Y", "Z">>
LowerLetters ==
    <<"a", "b", "c", "d", "e", "f", "g", "h", "i", "j", "k", "l", "m", "n", "o", "p", "q", "r", "s", "t", "u", "v", "w", "x", "y", "z">>

\* c.lower() of one character; an atom that is not a capital letter is kept
LowerChar(c) ==
    IF \E i \in 1..Len(UpperLetters) : UpperLetters[i] = c
    THEN LowerLetters[CHOOSE i \in 1..Len(UpperLetters) : UpperLetters[i] = c]
    ELSE c

\* response.lower()
LowerText(t) == [i \in 1..Len(t) |-> LowerChar(t[i])]

\* uncertainty_words of _estimate_confidence, character by character
UncertaintyWords ==
    <<<<"m", "i", "g", "h", "t">>,
      <<"m", "a", "y", "b", "e">>,
      <<"p", "e", "r", "h", "a", "p", "s">>,
      <<"p", "o", "s", "s", "i", "b", "l", "y">>,
      <<"i", " ", "t", "h", "i", "n", "k">>,
      <<"i", " ", "b", "e", "l", "i", "e", "v", "e">>,
      <<"n", "o", "t", " ", "s", "u", "r", "e">>,
      <<"u", "n", "c", "l", "e", "a", "r">>>>

\* definitive_words of _estimate_confidence
DefinitiveWords ==
    <<<<"a", "c", "c", "o", "r", "d", "i", "n", "g", " ", "t", "o">>,
      <<"a", "s", " ", "m", "e", "n", "t", "i", "o", "n", "e", "d", " ", "i", "n">>,
      <<"s", "p", "e", "c", "i", "f", "i", "c", "a", "l", "l", "y">>,
      <<"d", "e", "f", "i", "n", "i", "t", "e", "l", "y">>,
      <<"c", "l", "e", "a", "r", "l", "y">>>>

\* one loop of _estimate_confidence: delta is added for each word that occurs
\* in the lower-cased response
RECURSIVE AdjustConfidence(_, _, _, _)
AdjustConfidence(confidence, words, delta, response_lower) ==
    IF words = <<>> THEN confidence
    ELSE AdjustConfidence(
             IF Contains(response_lower, Head(words))
             THEN confidence + delta ELSE confidence,
             Tail(words), delta, response_lower)

\* max(0, min(100, confidence))
Clamp(confidence) ==
    IF confidence < 0 THEN 0 ELSE IF confidence > 100 THEN 100 ELSE confidence

\* the heuristic without its last line
EstimateConfidenceNoClamp(response) ==
    AdjustConfidence(AdjustConfidence(70, UncertaintyWords, 0 - 10, LowerText(response)),
                     DefinitiveWords, 10, LowerText(response))

\* the heuristic on the response as it is, without lower()
EstimateConfidenceCaseSensitive(response) ==
    Clamp(AdjustConfidence(AdjustConfidence(70, UncertaintyWords, 0 - 10, response),
                           DefinitiveWords, 10, response))

\* GeminiAgent._estimate_confidence
EstimateConfidence(response) ==
    Clamp(AdjustConfidence(AdjustConfidence(70, UncertaintyWords, 0 - 10,
                                            LowerText(response)),
                           DefinitiveWords, 10, LowerText(response)))

GeminiResponse == <<"Duty", " ", "is", " ", "dharma">>

\* GeminiAgent.process: "blank" is a response.text of whitespace only, which
\* is truthy and strips to the empty answer
GeminiProcess(b) ==
    CASE b = "error"  -> Raise("quota exceeded")
      [] b = "notext" -> Raise("Empty response from Gemini")
      [] b = "blank"  -> Return([response |-> Strip(<<" ", " ">>),
                                 confidence |-> EstimateConfidence(Strip(<<" ", " ">>)),
                                 sources |-> <<"Gemini AI">>])
      [] b = "text"   -> Return([response |-> Strip(GeminiResponse),
                                 confidence |-> EstimateConfidence(Strip(GeminiResponse)),
                                 sources |-> <<"Gemini AI">>])
      [] b = "given"  -> IF input.text = <<>>
                         THEN Raise("Empty response from Gemini")
                         ELSE Return([response |-> Strip(input.text),
                                      confidence |-> EstimateConfidence(Strip(input.text)),
                                      sources |-> <<"Gemini AI">>])

\* what each agent's backend can do
Backends(a) ==
    CASE a = "rag_agent"     -> {"error", "nomatch", "match", "matchcite"}
      [] a = "context_agent" -> {"dberror", "nouser", "history"}
      [] a = "web_agent"     -> {"httperror", "noresults", "results"}
      [] a = "gemini_agent"  -> {"error", "notext", "blank", "text"}

\* BaseAgent.process is abstract: execute is written for an override that
\* raises anything, so every agent also has the outcome "crash", an exception
\* that leaves process outside the agent's own handlers.
ProcessOutcomes(a) == Backends(a) \cup {"crash"}

\* self.process(query, context) of agent a
Process(a, b) ==
    IF b = "crash" THEN Raise("unexpected error")
    ELSE CASE a = "rag_agent"     -> RagProcess(b)
           [] a = "context_agent" -> ContextProcess(b)
           [] a = "web_agent"     -> WebProcess(b)
           [] a = "gemini_agent"  -> GeminiProcess(b)

\* BaseAgent.__init__: the fields of a new agent object
NewAgent == [response_time_ms |-> <<>>, success |-> FALSE, error |-> <<>>]

\* the fields execute writes on the agent object self when its process call
\* did out; the elapsed time is kept as "measured"
ExecuteWrites(self, out) ==
    IF out.kind = "return"
    THEN [self EXCEPT !.response_time_ms = <<"measured">>, !.success = TRUE]
    ELSE [self EXCEPT !.response_time_ms = <<"measured">>, !.success = FALSE,
                      !.error = <<out.msg>>]

\* BaseAgent.get_metrics on the agent object self of agent a
GetMetrics(a, self) ==
    [agent |-> AgentName(a), response_time_ms |-> self.response_time_ms,
     success |-> self.success, error |-> self.error]

\* execute without its except branch: what process raises leaves execute
ExecuteNoHandler(a, out) ==
    IF out.kind = "return"
    THEN [kind |-> "return",
          value |-> [agent |-> AgentName(a), success |-> TRUE,
                     response |-> out.result.response,
                     confidence |-> out.result.confidence,
                     sources |-> out.result.sources,
                     error |-> <<>>]]
    ELSE [kind |-> "raise",
          value |-> [agent |-> AgentName(a), success |-> FALSE,
                     response |-> <<>>, confidence |-> 0, sources |-> <<>>,
                     error |-> <<out.msg>>]]

\* BaseAgent.execute of agent a whose process call did out: the outcome of
\* execute itself, a returned AgentResult (response_time_ms and metadata left out)
Execute(a, out) ==
    IF out.kind = "return"
    THEN [kind |-> "return",
          value |-> [agent |-> AgentName(a), success |-> TRUE,
                     response |-> out.result.response,
                     confidence |-> out.result.confidence,
                     sources |-> out.result.sources,
                     error |-> <<>>]]
    ELSE [kind |-> "return",
          value |-> [agent |-> AgentName(a), success |-> FALSE,
                     response |-> <<>>, confidence |-> 0, sources |-> <<>>,
                     error |-> <<out.msg>>]]

---------------------------------------------------------------------------
(* The orchestrator's pure steps *)

\* the query and subscriber_id of the call
Query == <<"What", " ", "is", " ", "dharma", "?">>
SubscriberId == "subscriber-1"

\* a completion call (chat.completions.create) that returned message content t
CompText(t) == [kind |-> "return", text |-> t, msg |-> ""]

\* a completion call that raised
CompRaise(m) == [kind |-> "raise", text |-> <<>>, msg |-> m]

\* a completion call that returned a message whose content is None
CompNoContent == [kind |-> "nocontent", text |-> <<>>, msg |-> ""]

\* no completion call made yet
NoCall == [kind |-> "none", text |-> <<>>, msg |-> ""]

\* a fan-out that ignores use_all
DispatchedAlways(use_all) ==
    <<"rag_agent", "context_agent", "web_agent", "gemini_agent">>

\* the coroutines _query_all_agents hands to asyncio.gather, in order
Dispatched(use_all) ==
    IF use_all
    THEN <<"rag_agent", "context_agent", "web_agent", "gemini_agent">>
    ELSE <<"rag_agent", "context_agent">>

\* the use_all_agents argument quick_response passes
QuickUseAll == FALSE

\* _query_all_agents after gather: a task that raised is logged and left out
RECURSIVE ValidResponses(_, _)
ValidResponses(order, res) ==
    IF order = <<>> THEN <<>>
    ELSE LET r == res[Head(order)][1]
         IN  (IF r.kind = "raise" THEN <<>> ELSE <<r.value>>)
             \o ValidResponses(Tail(order), res)

EmptySlots == [rag |-> <<>>, web |-> <<>>, gemini |-> <<>>, context |-> <<>>]

\* a loop that puts the web agent's response into the general-knowledge slot
RECURSIVE RouteSlotsSwapped(_, _)
RouteSlotsSwapped(responses, acc) ==
    IF responses = <<>> THEN acc
    ELSE LET r == Head(responses)
             next ==
                 IF ~r.success THEN acc
                 ELSE IF Contains(r.agent, <<"RAG">>)
                      THEN [acc EXCEPT !.rag = r.response]
                 ELSE IF Contains(r.agent, <<"Web">>)
                      THEN [acc EXCEPT !.gemini = r.response]
                 ELSE IF Contains(r.agent, <<"Gemini">>)
                      THEN [acc EXCEPT !.web = r.response]
                 ELSE IF Contains(r.agent, <<"Context">>)
                      THEN [acc EXCEPT !.context = r.response]
                 ELSE acc
         IN  RouteSlotsSwapped(Tail(responses), next)

\* the loop of _verify_responses that sorts the successful responses by name
RECURSIVE RouteSlots(_, _)
RouteSlots(responses, acc) ==
    IF responses = <<>> THEN acc
    ELSE LET r == Head(responses)
             next ==
                 IF ~r.success THEN acc
                 ELSE IF Contains(r.agent, <<"RAG">>)
                      THEN [acc EXCEPT !.rag = r.response]
                 ELSE IF Contains(r.agent, <<"Web">>)
                      THEN [acc EXCEPT !.web = r.response]
                 ELSE IF Contains(r.agent, <<"Gemini">>)
                      THEN [acc EXCEPT !.gemini = r.response]
                 ELSE IF Contains(r.agent, <<"Context">>)
                      THEN [acc EXCEPT !.context = r.response]
                 ELSE acc
         IN  RouteSlots(Tail(responses), next)

NoRagSlot == <<"No scripture database results">>
NoWebSlot == <<"No web search results">>
NoGeminiSlot == <<"No Gemini response">>
NoContextSlot == <<"No conversation history">>

\* prompt arguments without the placeholders
PromptSlotsNoPlaceholder(raw) == raw

\* the arguments of verification_prompt.format
PromptSlots(raw) ==
    [rag     |-> OrElse(raw.rag, NoRagSlot),
     web     |-> OrElse(raw.web, NoWebSlot),
     gemini  |-> OrElse(raw.gemini, NoGeminiSlot),
     context |-> OrElse(raw.context, NoContextSlot)]

Apology == <<"I apologize, but I couldn't generate a verified answer at this time.">>

\* a fallback that forgets the "No relevant scripture" test
VerifyFallbackRagAlways(raw) ==
    IF raw.rag # <<>> THEN raw.rag
    ELSE IF raw.gemini # <<>> THEN raw.gemini
    ELSE Apology

\* a fallback that never answers with the "No relevant scripture" response
VerifyFallbackNoSentinel(raw) ==
    IF raw.rag # <<>> /\ ~Contains(raw.rag, NoScriptureMarker) THEN raw.rag
    ELSE IF raw.gemini # <<>> THEN raw.gemini
    ELSE Apology

\* a fallback that prefers the general-knowledge response to the scripture
VerifyFallbackGeminiFirst(raw) ==
    IF raw.gemini # <<>> THEN raw.gemini
    ELSE IF raw.rag # <<>> THEN raw.rag
    ELSE Apology

\* a fallback that answers with the conversation history when there is one
VerifyFallbackContext(raw) ==
    IF raw.context # <<>> THEN raw.context
    ELSE IF raw.rag # <<>> THEN raw.rag
    ELSE Apology

\* the except branch of _verify_responses
VerifyFallback(raw) ==
    IF raw.rag # <<>> /\ ~Contains(raw.rag, NoScriptureMarker) THEN raw.rag
    ELSE IF raw.gemini # <<>> THEN raw.gemini
    ELSE IF raw.rag # <<>> THEN raw.rag
    ELSE Apology

\* _verify_responses answering with the text of the completion's exception
VerifyResponsesLeak(responses, out) ==
    IF out.kind = "return"
    THEN [kind |-> "return", text |-> Strip(out.text)]
    ELSE [kind |-> "return", text |-> <<out.msg>>]

\* _verify_responses with its try/except left out: the completion's exception
\* leaves the function
VerifyResponsesNoTry(responses, out) ==
    IF out.kind = "return"
    THEN [kind |-> "return", text |-> Strip(out.text)]
    ELSE [kind |-> "raise", text |-> <<>>]

\* _verify_responses, by what its completion call did: content None makes
\* .strip() raise inside the try
VerifyResponses(responses, out) ==
    IF out.kind = "return"
    THEN [kind |-> "return", text |-> Strip(out.text)]
    ELSE [kind |-> "return", text |-> VerifyFallback(RouteSlots(responses, EmptySlots))]

\* the pipeline that drops the blank segments and forgets to trim the kept ones
RECURSIVE DropBlank(_)
DropBlank(ms) ==
    IF ms = <<>> THEN <<>>
    ELSE IF Strip(Head(ms)) # <<>>
         THEN <<Head(ms)>> \o DropBlank(Tail(ms))
         ELSE DropBlank(Tail(ms))

ChunkMessagesNoTrim(content) ==
    LET msgs == DropBlank(Split(Strip(content)))
    IN  IF Len(msgs) > MAX_MESSAGES_PER_RESPONSE
        THEN Take(msgs, MAX_MESSAGES_PER_RESPONSE)
        ELSE msgs

\* the pipeline without the cap on the number of messages
ChunkMessagesNoCap(content) == StripAndDrop(Split(Strip(content)))

\* the split, trim, drop and cap of _generate_conversational_response
ChunkMessages(content) ==
    LET msgs == StripAndDrop(Split(Strip(content)))
    IN  IF Len(msgs) > MAX_MESSAGES_PER_RESPONSE
        THEN Take(msgs, MAX_MESSAGES_PER_RESPONSE)
        ELSE msgs

\* _generate_conversational_response without "if not messages": an output
\* with no message is returned as the empty list
GenerateConversationalResponseNoDefault(verified_answer, out) ==
    IF out.kind = "return"
    THEN [kind |-> "return", value |-> ChunkMessages(out.text)]
    ELSE [kind |-> "return", value |-> <<verified_answer>>]

\* _generate_conversational_response, by what its completion call did
GenerateConversationalResponse(verified_answer, out) ==
    IF out.kind = "return"
    THEN [kind |-> "return",
          value |-> IF ChunkMessages(out.text) = <<>>
                    THEN <<verified_answer>>
                    ELSE ChunkMessages(out.text)]
    ELSE [kind |-> "return", value |-> <<verified_answer>>]

\* a match that tells upper case from lower case
LowerNone(c) == c

\* re.IGNORECASE on the atoms of the citation sentence
Lower(c) ==
    CASE c \in {"As mentioned in", "as mentioned in", "AS MENTIONED IN"} -> "as mentioned in"
      [] c \in {"Chapter", "chapter", "CHAPTER"} -> "chapter"
      [] c \in {"Verse", "verse", "VERSE"} -> "verse"
      [] OTHER -> c

\* \d+ and int(): the digit atoms of the model and their values
Digits == {"2", "47", "07"}
IntOf(d) == CASE d = "2" -> 2 [] d = "47" -> 47 [] d = "07" -> 7
StrOf(n) == CASE n = 2 -> "2" [] n = 47 -> "47" [] n = 7 -> "7"

\* the atoms that follow the book in a citation sentence: 10 atoms from ","
CitationTail(t, j) ==
    /\ j + 9 <= Len(t)
    /\ t[j] = "," /\ t[j + 1] = " " /\ Lower(t[j + 2]) = "chapter" /\ t[j + 3] = " "
    /\ t[j + 4] \in Digits
    /\ t[j + 5] = "," /\ t[j + 6] = " " /\ Lower(t[j + 7]) = "verse" /\ t[j + 8] = " "
    /\ t[j + 9] \in Digits

\* where the book of a sentence starting at i ends: the first comma after it
BookEnd(t, i) ==
    LET commas == {j \in (i + 2)..Len(t) : t[j] = ","}
    IN  IF commas = {} THEN 0 ELSE SetMin(commas)

\* whether "As mentioned in <book>, Chapter <n>, Verse <m>" starts at atom i
CitationAt(t, i) ==
    /\ i + 2 <= Len(t)
    /\ Lower(t[i]) = "as mentioned in" /\ t[i + 1] = " "
    /\ BookEnd(t, i) > i + 2
    /\ CitationTail(t, BookEnd(t, i))

\* _extract_citations: re.finditer from atom i on, matches not overlapping
RECURSIVE CitationsFrom(_, _)
CitationsFrom(t, i) ==
    IF i > Len(t) THEN <<>>
    ELSE IF CitationAt(t, i)
    THEN LET j == BookEnd(t, i)
             book == Strip(SubSeq(t, i + 2, j - 1))
             chapter == IntOf(t[j + 4])
             verse == IntOf(t[j + 9])
         IN  <<[book |-> book, chapter |-> chapter, verse |-> verse,
                source |-> book \o <<",", " ", "Chapter", " ", StrOf(chapter),
                                     ",", " ", "Verse", " ", StrOf(verse)>>]>>
             \o CitationsFrom(t, j + 10)
    ELSE CitationsFrom(t, i + 1)

ExtractCitations(t) == CitationsFrom(t, 1)

\* the tables of init_db, without a row
EmptyDb == [users |-> <<>>, conversations |-> <<>>, messages |-> <<>>]

\* db.query(User).filter(User.subscriber_id == subscriber_id).first()
\* first() is the index of the first row found, or 0
FindUser(d, subscriber_id) ==
    LET hits == {i \in 1..Len(d.users) : d.users[i].subscriber_id = subscriber_id}
    IN  IF hits = {} THEN 0 ELSE SetMin(hits)

\* a lookup that never finds the active conversation
NoActiveConversation(d, user_id) == 0

\* db.query(Conversation).filter(user_id == user.id, is_active == True).first()
FindActiveConversation(d, user_id) ==
    LET hits == {i \in 1..Len(d.conversations) :
                    /\ d.conversations[i].user_id = user_id
                    /\ d.conversations[i].is_active}
    IN  IF hits = {} THEN 0 ELSE SetMin(hits)

\* where the store can fail a save_message call: "ok" nowhere, "error" at its
\* first query, then at the flush of a new user, at the conversation query,
\* at the flush of a new conversation, at the commit
StorePoints ==
    {"ok", "error", "flush_user", "query_conversation", "flush_conversation", "commit"}

\* the body of 'with get_db() as db' in save_message, on the session's view d
\* of the tables, at time now: the view it ends with, and whether it raised
SaveTx(d, subscriber_id, role, content, now, store) ==
    LET u == FindUser(d, subscriber_id)
        uid == IF u = 0 THEN Len(d.users) + 1 ELSE d.users[u].id
        users1 == IF u = 0
                  THEN Append(d.users, [id |-> uid, subscriber_id |-> subscriber_id,
                                        last_interaction |-> now])
                  ELSE d.users
        ui == IF u = 0 THEN Len(users1) ELSE u
        d1 == [d EXCEPT !.users = [users1 EXCEPT ![ui].last_interaction = now]]
        c == FindActiveConversation(d1, uid)
        cid == IF c = 0 THEN Len(d1.conversations) + 1 ELSE d1.conversations[c].id
        convs1 == IF c = 0
                  THEN Append(d1.conversations,
                              [id |-> cid, user_id |-> uid, is_active |-> TRUE,
                               message_count |-> 0, last_message_at |-> now])
                  ELSE d1.conversations
        ci == IF c = 0 THEN Len(convs1) ELSE c
        d2 == [d1 EXCEPT
                  !.conversations =
                      [convs1 EXCEPT ![ci].last_message_at = now,
                                     ![ci].message_count = convs1[ci].message_count + 1],
                  !.messages =
                      Append(d1.messages,
                             [conversation_id |-> cid, user_id |-> uid,
                              role |-> role, content |-> content])]
    IN  IF store = "error" THEN [db |-> d, raised |-> TRUE]
        ELSE IF store = "flush_user" /\ u = 0 THEN [db |-> d, raised |-> TRUE]
        ELSE IF store = "query_conversation" THEN [db |-> d1, raised |-> TRUE]
        ELSE IF store = "flush_conversation" /\ c = 0 THEN [db |-> d1, raised |-> TRUE]
        ELSE IF store = "commit" THEN [db |-> d2, raised |-> TRUE]
        ELSE [db |-> d2, raised |-> FALSE]

\* a get_db that commits what the session holds also when the body raised
GetDbNoRollback(d, tx) == tx.db

\* get_db around the body: commit when it returned, rollback when it raised
GetDb(d, tx) == IF tx.raised THEN d ELSE tx.db

\* the tables after save_message
SaveMessageDb(d, subscriber_id, role, content, now, store) ==
    GetDb(d, SaveTx(d, subscriber_id, role, content, now, store))

\* save_message without its except branch: the store's error leaves the call
SaveMessageRaises(store) ==
    IF store = "ok"
    THEN [kind |-> "return", ok |-> TRUE]
    ELSE [kind |-> "raise", ok |-> FALSE]

\* ContextAgent.save_message, by what the store did: an error is caught and
\* answered False
SaveMessage(store) ==
    [kind |-> "return", ok |-> (store = "ok")]

\* the names of all the agents that answered, failed or not
RECURSIVE AgentsUsedAll(_)
AgentsUsedAll(responses) ==
    IF responses = <<>> THEN <<>>
    ELSE <<Head(responses).agent>> \o AgentsUsedAll(Tail(responses))

\* the names of the agents that succeeded
RECURSIVE AgentsUsed(_)
AgentsUsed(responses) ==
    IF responses = <<>> THEN <<>>
    ELSE (IF Head(responses).success THEN <<Head(responses).agent>> ELSE <<>>)
         \o AgentsUsed(Tail(responses))

---------------------------------------------------------------------------
(* Inputs of the model *)

\* which blocking backend call never returns: none, or the one of a single
\* agent (the web search carries httpx's timeout of 10 s and always returns)
HungChoices == {{}} \cup {{a} : a \in SyncAgents}

VerifiedText == <<"Do", " ", "your", " ", "duty">>

\* a verified answer that cites a verse
CitingText ==
    <<"As mentioned in", " ", "Bhagavad Gita", ",", " ", "Chapter", " ", "2",
      ",", " ", "Verse", " ", "47", " ", "act">>

\* what the verification completion call can do
VerifyOutcomes ==
    {CompRaise("completion timeout"), CompRaise("rate limit exceeded"), CompNoContent,
     CompText(<<" ">>), CompText(VerifiedText), CompText(CitingText)}

\* 'A|||B|||  ||| C '
ChunkExample ==
    <<"A", "|", "|", "|", "B", "|", "|", "|", " ", " ", "|", "|", "|", " ", "C", " ">>

\* seven segments, one more than MAX_MESSAGES_PER_RESPONSE
RECURSIVE Segments(_)
Segments(n) ==
    IF n = 0 THEN <<"B">> ELSE <<"A">> \o Delimiter \o Segments(n - 1)

ChunkOverflow == Segments(MAX_MESSAGES_PER_RESPONSE)

\* what the chunking completion call can do in a whole process_query
ChunkOutcomes ==
    {CompRaise("completion timeout"), CompRaise("rate limit exceeded"), CompNoContent,
     CompText(ChunkExample), CompText(ChunkOverflow),
     CompText(<<" ", "|", "|", "|", " ">>), CompText(<<"A", " ", "B">>)}

ChunkAlphabet == {"A", "B", " ", "|"}

\* every chunking output of at most MaxChunkLen characters
ChunkTexts == UNION {[1..k -> ChunkAlphabet] : k \in 0..MaxChunkLen}

StoreOutcomes == {"ok", "error"}

---------------------------------------------------------------------------
(* The state machine *)

NotDone == [a \in Agents |-> <<>>]

\* a run whose backends are live: nothing is fixed in advance
NoInput == [kind |-> "live"]

\* nothing returned yet
NoOutput == [kind |-> "none"]

Init ==
    /\ pc = "idle"
    /\ entry = "none"
    /\ useAll = TRUE
    /\ hung = {}
    /\ ready = <<>>
    /\ task = [a \in Agents |-> "none"]
    /\ cpu = "none"
    /\ calls = [a \in Agents |-> 0]
    /\ procOut = NotDone
    /\ taskResult = NotDone
    /\ agentResponses = <<>>
    /\ slots = EmptySlots
    /\ vOut = NoCall
    /\ verified = <<>>
    /\ cOut = NoCall
    /\ messages = <<>>
    /\ citations = <<>>
    /\ saveLog = <<>>
    /\ result = <<>>
    /\ backendOut = NotDone
    /\ returned = <<>>
    /\ output = NoOutput
    /\ agentObj = [a \in Agents |-> NewAgent]
    /\ db = EmptyDb
    /\ input = NoInput

InSeq(a, order) == \E i \in 1..Len(order) : order[i] = a

\* process_query up to its first suspension: the context is built, gather
\* wraps each coroutine in a task, and the call waits for them
StartCall(e, use_all, h) ==
    /\ pc = "idle"
    /\ entry' = e
    /\ useAll' = use_all
    /\ hung' = h
    /\ ready' = Dispatched(use_all)
    /\ task' = [a \in Agents |->
                   IF InSeq(a, Dispatched(use_all)) THEN "ready" ELSE "none"]
    /\ pc' = "gather"
    /\ UNCHANGED <<backendOut, returned, input, output, agentObj, db>>
    /\ UNCHANGED <<cpu, calls, procOut, taskResult, agentResponses, slots, vOut,
                   verified, cOut, messages, citations, saveLog, result>>

ProcessQuery(use_all, h) == StartCall("process_query", use_all, h)

QuickResponse(h) == StartCall("quick_response", QuickUseAll, h)

\* the event loop starts the oldest task that has not run: execute is entered
\* and runs to the backend call of process.  A blocking call keeps the thread.
TaskStart(a) ==
    /\ cpu = "none"
    /\ ready # <<>>
    /\ a = Head(ready)
    /\ ready' = Tail(ready)
    /\ calls' = [calls EXCEPT ![a] = @ + 1]
    /\ IF a \in SyncAgents
       THEN /\ task' = [task EXCEPT ![a] = "blocked"]
            /\ cpu' = a
       ELSE /\ task' = [task EXCEPT ![a] = "awaiting"]
            /\ cpu' = cpu
    /\ UNCHANGED <<backendOut, returned, input, output, agentObj, db>>
    /\ UNCHANGED <<pc, entry, useAll, hung, procOut, taskResult, agentResponses,
                   slots, vOut, verified, cOut, messages, citations, saveLog, result>>

\* the backend call of agent a ends with b: process and execute run to their
\* end and the task is done
BackendReturn(a, b) ==
    /\ a \notin hung
    /\ \/ task[a] = "blocked" /\ cpu = a
       \/ task[a] = "awaiting" /\ cpu = "none"
    /\ backendOut' = [backendOut EXCEPT ![a] = <<b>>]
    /\ agentObj' = [agentObj EXCEPT ![a] = ExecuteWrites(agentObj[a], Process(a, b))]
    /\ procOut' = [procOut EXCEPT ![a] = <<Process(a, b)>>]
    /\ taskResult' = [taskResult EXCEPT ![a] = <<Execute(a, Process(a, b))>>]
    /\ task' = [task EXCEPT ![a] = "done"]
    /\ cpu' = "none"
    /\ UNCHANGED <<returned, input, output, db>>
    /\ UNCHANGED <<pc, entry, useAll, hung, ready, calls, agentResponses, slots,
                   vOut, verified, cOut, messages, citations, saveLog, result>>

\* a wait that ends with the first task that is done
GatherFirstCompleted == \E a \in Agents : task[a] = "done"

\* asyncio.gather(*tasks, return_exceptions=True) has its result
GatherComplete == \A a \in Agents : task[a] \in {"none", "done"}

\* gather returns: the valid responses are kept, _verify_responses fills the
\* prompt and awaits the verification completion
GatherReturn ==
    /\ pc = "gather"
    /\ cpu = "none"
    /\ GatherComplete
    /\ LET order == SelectSeq(Dispatched(useAll), LAMBDA a : taskResult[a] # <<>>)
           valid == ValidResponses(order, taskResult)
       IN  /\ agentResponses' = valid
           /\ slots' = PromptSlots(RouteSlots(valid, EmptySlots))
    /\ pc' = "verify"
    /\ UNCHANGED <<backendOut, returned, input, output, agentObj, db>>
    /\ UNCHANGED <<entry, useAll, hung, ready, task, cpu, calls, procOut, taskResult,
                   vOut, verified, cOut, messages, citations, saveLog, result>>

\* the verification completion ends: verified_answer is set and
\* _generate_conversational_response awaits the chunking completion
VerifyReturn(out) ==
    /\ pc = "verify"
    /\ cpu = "none"
    /\ vOut' = out
    /\ LET r == VerifyResponses(agentResponses, out)
       IN  IF r.kind = "raise"
           THEN pc' = "raised" /\ verified' = verified
           ELSE pc' = "chunk" /\ verified' = r.text
    /\ UNCHANGED <<backendOut, returned, input, output, agentObj, db>>
    /\ UNCHANGED <<entry, useAll, hung, ready, task, cpu, calls, procOut, taskResult,
                   agentResponses, slots, cOut, messages, citations, saveLog, result>>

\* the chunking completion ends: messages and citations are set.  save_message
\* awaits nothing, so the call keeps the thread until it returns.
ChunkReturn(out) ==
    /\ pc = "chunk"
    /\ cpu = "none"
    /\ cOut' = out
    /\ LET r == GenerateConversationalResponse(verified, out)
       IN  IF r.kind = "raise"
           THEN /\ pc' = "raised"
                /\ UNCHANGED <<messages, citations, cpu>>
           ELSE /\ pc' = "save_user"
                /\ messages' = r.value
                /\ citations' = ExtractCitations(verified)
                /\ cpu' = "main"
    /\ UNCHANGED <<backendOut, returned, input, output, agentObj, db>>
    /\ UNCHANGED <<entry, useAll, hung, ready, task, calls, procOut, taskResult,
                   agentResponses, slots, vOut, verified, saveLog, result>>

\* a process_query that goes on to the assistant turn without saving the
\* user turn
SaveUserSkipped(store) ==
    /\ pc = "save_user"
    /\ cpu = "main"
    /\ pc' = "save_assistant"
    /\ UNCHANGED <<entry, useAll, hung, ready, task, cpu, calls, procOut, taskResult,
                   agentResponses, slots, vOut, verified, cOut, messages, citations,
                   saveLog, result, backendOut, returned, input, output, agentObj, db>>

\* save_message(role="user", content=query)
SaveUser(store) ==
    /\ pc = "save_user"
    /\ cpu = "main"
    /\ LET r == SaveMessage(store)
       IN  IF r.kind = "raise"
           THEN pc' = "raised" /\ cpu' = "none" /\ saveLog' = saveLog /\ db' = db
           ELSE /\ pc' = "save_assistant"
                /\ cpu' = cpu
                /\ saveLog' = Append(saveLog,
                       [subscriber_id |-> SubscriberId, role |-> "user",
                        content |-> Query, agents_used |-> <<>>,
                        citations |-> <<>>, ok |-> r.ok, at |-> pc])
                /\ db' = SaveMessageDb(db, SubscriberId, "user", Query,
                                       Len(saveLog) + 1, store)
    /\ UNCHANGED <<backendOut, returned, input, output, agentObj>>
    /\ UNCHANGED <<entry, useAll, hung, ready, task, calls, procOut, taskResult,
                   agentResponses, slots, vOut, verified, cOut, messages, citations,
                   result>>

\* save_message(role="assistant", ...) and the return of process_query
SaveAssistant(store) ==
    /\ pc = "save_assistant"
    /\ cpu = "main"
    /\ cpu' = "none"
    /\ LET r == SaveMessage(store)
       IN  IF r.kind = "raise"
           THEN pc' = "raised" /\ UNCHANGED <<saveLog, result, db>>
           ELSE /\ pc' = "done"
                /\ saveLog' = Append(saveLog,
                       [subscriber_id |-> SubscriberId, role |-> "assistant",
                        content |-> JoinSpace(messages),
                        agents_used |-> AgentsUsed(agentResponses),
                        citations |-> citations, ok |-> r.ok, at |-> pc])
                /\ db' = SaveMessageDb(db, SubscriberId, "assistant",
                                       JoinSpace(messages), Len(saveLog) + 1, store)
                /\ result' = <<[messages |-> messages,
                                agents_used |-> AgentsUsed(agentResponses),
                                citations |-> citations,
                                metadata |-> [agent_responses |-> agentResponses,
                                              verified_answer |-> verified]]>>
    /\ UNCHANGED <<backendOut, returned, input, output, agentObj>>
    /\ UNCHANGED <<entry, useAll, hung, ready, task, calls, procOut, taskResult,
                   agentResponses, slots, vOut, verified, cOut, messages, citations>>

Next ==
    \/ \E use_all \in BOOLEAN, h \in HungChoices : ProcessQuery(use_all, h)
    \/ \E h \in HungChoices : QuickResponse(h)
    \/ \E a \in Agents : TaskStart(a)
    \/ \E a \in Agents : \E b \in ProcessOutcomes(a) : BackendReturn(a, b)
    \/ GatherReturn
    \/ \E out \in VerifyOutcomes : VerifyReturn(out)
    \/ \E out \in ChunkOutcomes : ChunkReturn(out)
    \/ \E store \in StoreOutcomes : SaveUser(store)
    \/ \E store \in StoreOutcomes : SaveAssistant(store)

Spec == Init /\ [][Next]_vars

\* The event loop runs every task that is ready, a backend call that is not
\* hung returns, and the completion and store calls return.
Fairness ==
    /\ \A a \in Agents : WF_vars(TaskStart(a))
    /\ \A a \in Agents : WF_vars(\E b \in ProcessOutcomes(a) : BackendReturn(a, b))
    /\ WF_vars(GatherReturn)
    /\ WF_vars(\E out \in VerifyOutcomes : VerifyReturn(out))
    /\ WF_vars(\E out \in ChunkOutcomes : ChunkReturn(out))
    /\ WF_vars(\E store \in StoreOutcomes : SaveUser(store))
    /\ WF_vars(\E store \in StoreOutcomes : SaveAssistant(store))

FairSpec == Init /\ [][Next]_vars /\ Fairness

---------------------------------------------------------------------------
(* _generate_conversational_response alone, on every short completion text *)

InitChunk ==
    /\ pc = "chunk"
    /\ entry = "process_query"
    /\ useAll = FALSE
    /\ hung = {}
    /\ ready = <<>>
    /\ task = [a \in Agents |-> "none"]
    /\ cpu = "none"
    /\ calls = [a \in Agents |-> 0]
    /\ procOut = NotDone
    /\ taskResult = NotDone
    /\ agentResponses = <<>>
    /\ slots = PromptSlots(EmptySlots)
    /\ vOut = NoCall
    /\ verified \in {VerifiedText, CitingText}
    /\ cOut = NoCall
    /\ messages = <<>>
    /\ citations = <<>>
    /\ saveLog = <<>>
    /\ result = <<>>
    /\ backendOut = NotDone
    /\ returned = <<>>
    /\ output = NoOutput
    /\ agentObj = [a \in Agents |-> NewAgent]
    /\ db = EmptyDb
    /\ input = NoInput

ChunkCallOutcomes ==
    {CompRaise("completion timeout"), CompNoContent}
    \cup {CompText(t) : t \in ChunkTexts \cup {ChunkExample, ChunkOverflow}}

NextChunk == \E out \in ChunkCallOutcomes : ChunkReturn(out)

SpecChunk == InitChunk /\ [][NextChunk]_vars

---------------------------------------------------------------------------
(* _extract_citations alone, on verified answers put together from parts *)

\* the parts a verified answer is put together from: plain text, three
\* citation sentences (one in upper case with a leading zero, one with spaces
\* around the book), an opening without the rest of the sentence, and a
\* sentence that lacks its verse
CiteParts == {"text", "gita", "katha", "veda", "opening", "noverse"}

PartText(p) ==
    CASE p = "text"    -> <<"act", " ">>
      [] p = "gita"    -> <<"As mentioned in", " ", "Bhagavad Gita", ",", " ",
                            "Chapter", " ", "2", ",", " ", "Verse", " ", "47">>
      [] p = "katha"   -> <<"AS MENTIONED IN", " ", "Katha Upanishad", ",", " ",
                            "CHAPTER", " ", "07", ",", " ", "VERSE", " ", "2">>
      [] p = "veda"    -> <<"as mentioned in", " ", " ", "Rig Veda", " ", ",", " ",
                            "chapter", " ", "2", ",", " ", "verse", " ", "2">>
      [] p = "opening" -> <<"As mentioned in", " ", "the", " ">>
      [] p = "noverse" -> <<"As mentioned in", " ", "Bhagavad Gita", ",", " ",
                            "Chapter", " ", "2", " ">>

RECURSIVE TextOfParts(_)
TextOfParts(ps) ==
    IF ps = <<>> THEN <<>> ELSE PartText(Head(ps)) \o TextOfParts(Tail(ps))

\* every sequence of at most MaxParts parts
PartLists == UNION {[1..k -> CiteParts] : k \in 0..MaxParts}

InitCite ==
    /\ pc = "chunk"
    /\ entry = "process_query"
    /\ useAll = FALSE
    /\ hung = {}
    /\ ready = <<>>
    /\ task = [a \in Agents |-> "none"]
    /\ cpu = "none"
    /\ calls = [a \in Agents |-> 0]
    /\ procOut = NotDone
    /\ taskResult = NotDone
    /\ agentResponses = <<>>
    /\ slots = PromptSlots(EmptySlots)
    /\ vOut = NoCall
    /\ \E ps \in PartLists :
          /\ input = [kind |-> "cite", parts |-> ps]
          /\ verified = TextOfParts(ps)
    /\ cOut = NoCall
    /\ messages = <<>>
    /\ citations = <<>>
    /\ saveLog = <<>>
    /\ result = <<>>
    /\ backendOut = NotDone
    /\ returned = <<>>
    /\ output = NoOutput
    /\ agentObj = [a \in Agents |-> NewAgent]
    /\ db = EmptyDb

\* the chunking call ends and process_query extracts the citations
NextCite ==
    \E out \in {CompRaise("completion timeout"), CompText(<<"A", " ", "B">>)} :
        ChunkReturn(out)

SpecCite == InitCite /\ [][NextCite]_vars

---------------------------------------------------------------------------
(* quick_response called twice on deterministic fakes and one store *)

\* a fake verification completion: it fails, answers a fixed text, or answers
\* with a slot of the prompt it was given
VerifyFakes == {"raise", "fixed", "citing", "echo_context", "echo_rag"}

FakeVerify(f, prompt) ==
    CASE f = "raise"        -> CompRaise("completion timeout")
      [] f = "fixed"        -> CompText(VerifiedText)
      [] f = "citing"       -> CompText(CitingText)
      [] f = "echo_context" -> CompText(prompt.context)
      [] f = "echo_rag"     -> CompText(prompt.rag)

\* a fake chunking completion: it fails, answers a fixed text, or answers
\* with the verified answer of its prompt
ChunkFakes == {"raise", "fixed", "echo"}

FakeChunk(f, verified_answer) ==
    CASE f = "raise" -> CompRaise("completion timeout")
      [] f = "fixed" -> CompText(ChunkExample)
      [] f = "echo"  -> CompText(verified_answer)

\* a fake backend answers the same way at every call; the conversation store
\* answers with what it holds
FakeBackend(a) ==
    CASE a = "rag_agent"     -> input.rag
      [] a = "context_agent" -> IF StoreHasHistory THEN "stored" ELSE "nouser"
      [] a = "web_agent"     -> "results"
      [] a = "gemini_agent"  -> "text"

InitTwice ==
    /\ pc = "idle"
    /\ entry = "none"
    /\ useAll = TRUE
    /\ hung = {}
    /\ ready = <<>>
    /\ task = [a \in Agents |-> "none"]
    /\ cpu = "none"
    /\ calls = [a \in Agents |-> 0]
    /\ procOut = NotDone
    /\ taskResult = NotDone
    /\ agentResponses = <<>>
    /\ slots = EmptySlots
    /\ vOut = NoCall
    /\ verified = <<>>
    /\ cOut = NoCall
    /\ messages = <<>>
    /\ citations = <<>>
    /\ saveLog = <<>>
    /\ result = <<>>
    /\ backendOut = NotDone
    /\ returned = <<>>
    /\ output = NoOutput
    /\ agentObj = [a \in Agents |-> NewAgent]
    /\ db = EmptyDb
    /\ \E b \in ProcessOutcomes("rag_agent"), v \in VerifyFakes, c \in ChunkFakes,
          s \in StoreOutcomes :
          input = [kind |-> "fakes", rag |-> b, verify |-> v, chunk |-> c, store |-> s]

\* the first call has returned and the caller makes the second one: the
\* orchestrator and the store are the same objects, the call starts afresh
NextRequest ==
    /\ pc = "done"
    /\ returned = <<>>
    /\ returned' = Append(returned, result[1])
    /\ pc' = "idle"
    /\ entry' = "none"
    /\ ready' = <<>>
    /\ task' = [a \in Agents |-> "none"]
    /\ calls' = [a \in Agents |-> 0]
    /\ procOut' = NotDone
    /\ taskResult' = NotDone
    /\ backendOut' = NotDone
    /\ agentResponses' = <<>>
    /\ slots' = EmptySlots
    /\ vOut' = NoCall
    /\ verified' = <<>>
    /\ cOut' = NoCall
    /\ messages' = <<>>
    /\ citations' = <<>>
    /\ result' = <<>>
    /\ UNCHANGED <<useAll, hung, cpu, saveLog, input, output, agentObj, db>>

NextTwice ==
    \/ QuickResponse({})
    \/ \E a \in Agents : TaskStart(a)
    \/ \E a \in Agents : BackendReturn(a, FakeBackend(a))
    \/ GatherReturn
    \/ VerifyReturn(FakeVerify(input.verify, slots))
    \/ ChunkReturn(FakeChunk(input.chunk, verified))
    \/ SaveUser(input.store)
    \/ SaveAssistant(input.store)
    \/ NextRequest

SpecTwice == InitTwice /\ [][NextTwice]_vars

---------------------------------------------------------------------------
(* execute of one agent alone, on the outputs its backend can give *)

\* C.upper() of one character
UpperChar(c) ==
    IF \E i \in 1..Len(LowerLetters) : LowerLetters[i] = c
    THEN UpperLetters[CHOOSE i \in 1..Len(LowerLetters) : LowerLetters[i] = c]
    ELSE c

\* a phrase as the completion writes it: as it is, in capitals, or twice
Styled(phrase, style) ==
    CASE style = "plain" -> phrase \o <<" ">>
      [] style = "upper" -> [i \in 1..Len(phrase) |-> UpperChar(phrase[i])] \o <<" ">>
      [] style = "twice" -> phrase \o <<" ">> \o phrase \o <<" ">>

\* the phrases of words whose index is in picked, one after the other
RECURSIVE PhrasesText(_, _, _, _)
PhrasesText(words, picked, style, i) ==
    IF i > Len(words) THEN <<>>
    ELSE (IF i \in picked THEN Styled(words[i], style) ELSE <<>>)
         \o PhrasesText(words, picked, style, i + 1)

\* the texts the generative backend answers with: any choice of hedging and
\* assertive phrases, at most two phrases in capitals or written twice, and
\* 'Unclearly so', which holds a phrase of each list
GeminiTexts ==
    {<<"U", "n", "c", "l", "e", "a", "r", "l", "y", " ", "s", "o">>, <<>>, <<" ">>}
    \cup {PhrasesText(UncertaintyWords, h, "plain", 1)
          \o PhrasesText(DefinitiveWords, d, "plain", 1) :
            h \in SUBSET (1..Len(UncertaintyWords)),
            d \in SUBSET (1..Len(DefinitiveWords))}
    \cup {PhrasesText(UncertaintyWords, h, style, 1)
          \o PhrasesText(DefinitiveWords, d, style, 1) :
            h \in {x \in SUBSET (1..Len(UncertaintyWords)) : Cardinality(x) <= 1},
            d \in {x \in SUBSET (1..Len(DefinitiveWords)) : Cardinality(x) <= 1},
            style \in {"upper", "twice"}}

\* the similarity scores of the model, in thousandths
Scores == {650, 700, 701, 855, 857, 1000}

\* the matches index.query returns: at most MaxMatches, best score first; the
\* match of rank i has the text "T<i>" and, when it has one, the source "S<i>"
RankText == <<"T1", "T2", "T3", "T4", "T5">>
RankSource == <<"S1", "S2", "S3", "S4", "S5">>

MatchLists ==
    UNION {{[i \in 1..k |-> [score |-> sc[i], text |-> RankText[i],
                             source |-> IF src[i] THEN <<RankSource[i]>> ELSE <<>>]] :
              sc \in {f \in [1..k -> Scores] : \A i \in 1..(k - 1) : f[i] >= f[i + 1]},
              src \in [1..k -> BOOLEAN]} : k \in 0..MaxMatches}

\* what the backend of one agent gives in a run of SpecAgents
BackendInputs ==
    {[kind |-> "backend", agent |-> "gemini_agent", outcome |-> "given",
      text |-> t, matches |-> <<>>, results |-> 0] : t \in GeminiTexts}
    \cup {[kind |-> "backend", agent |-> "rag_agent", outcome |-> "given",
           text |-> <<>>, matches |-> ms, results |-> 0] : ms \in MatchLists}
    \cup {[kind |-> "backend", agent |-> "web_agent", outcome |-> "given",
           text |-> <<>>, matches |-> <<>>, results |-> n] : n \in 0..MaxResults}
    \cup UNION {{[kind |-> "backend", agent |-> a, outcome |-> b,
                  text |-> <<>>, matches |-> <<>>, results |-> 0] :
                   b \in ProcessOutcomes(a)} : a \in Agents}

\* the task of one agent has entered execute and waits for its backend
InitAgents ==
    /\ input \in BackendInputs
    /\ pc = "gather"
    /\ entry = "process_query"
    /\ useAll = TRUE
    /\ hung = {}
    /\ ready = <<>>
    /\ task = [a \in Agents |->
                  IF a # input.agent THEN "none"
                  ELSE IF a \in SyncAgents THEN "blocked" ELSE "awaiting"]
    /\ cpu = (IF input.agent \in SyncAgents THEN input.agent ELSE "none")
    /\ calls = [a \in Agents |-> IF a = input.agent THEN 1 ELSE 0]
    /\ procOut = NotDone
    /\ taskResult = NotDone
    /\ agentResponses = <<>>
    /\ slots = EmptySlots
    /\ vOut = NoCall
    /\ verified = <<>>
    /\ cOut = NoCall
    /\ messages = <<>>
    /\ citations = <<>>
    /\ saveLog = <<>>
    /\ result = <<>>
    /\ backendOut = NotDone
    /\ returned = <<>>
    /\ output = NoOutput
    /\ agentObj = [a \in Agents |-> NewAgent]
    /\ db = EmptyDb

NextAgents == BackendReturn(input.agent, input.outcome)

SpecAgents == InitAgents /\ [][NextAgents]_vars

---------------------------------------------------------------------------
(* the ManyChat webhook of src/main.py, on one request *)

\* a key the JSON body does not have; data.get answers None
Missing == "<missing>"

\* not x, for a value of the JSON body
Falsy(x) == x \in {Missing, ""}

\* the requests: a body that is JSON or not, its three keys absent, empty or
\* set, and how the installed HTTPException prints itself with str()
WebhookRequests ==
    [kind : {"webhook"},
     json_ok : BOOLEAN,
     subscriber_id : {Missing, "", "subscriber-1", "subscriber-2"},
     user_messages : {Missing, "", "What is dharma?"},
     AI_user_messages : {Missing, "", "What is karma?"},
     str_of_exception : {"status: detail", ""}]

\* data.get("user_messages", data.get("AI_user_messages", ""))
UserMessagesOf(req) ==
    IF req.user_messages # Missing THEN req.user_messages
    ELSE IF req.AI_user_messages # Missing THEN req.AI_user_messages
    ELSE ""

\* the try block of manychat_webhook: what it returns or raises, and the
\* background tasks it has added
WebhookTry(req) ==
    IF ~req.json_ok
    THEN [kind |-> "raise", exception |-> "JSONDecodeError", status |-> 0,
          detail |-> "Expecting value", scheduled |-> <<>>]
    ELSE IF Falsy(req.subscriber_id)
    THEN [kind |-> "raise", exception |-> "HTTPException", status |-> 400,
          detail |-> "Missing subscriber_id", scheduled |-> <<>>]
    ELSE IF Falsy(UserMessagesOf(req))
    THEN [kind |-> "raise", exception |-> "HTTPException", status |-> 400,
          detail |-> "Missing user_messages", scheduled |-> <<>>]
    ELSE [kind |-> "return", exception |-> "", status |-> 200,
          detail |-> "processing",
          scheduled |-> <<[task |-> "process_and_respond",
                           subscriber_id |-> req.subscriber_id,
                           user_messages |-> UserMessagesOf(req)]>>]

\* str(e) of the exception the try block raised
StrOfException(req, t) ==
    IF t.exception = "HTTPException"
    THEN (IF req.str_of_exception = "" THEN <<>>
          ELSE <<"400", ":", " ", t.detail>>)
    ELSE <<t.detail>>

\* manychat_webhook: 'except Exception' also catches the HTTPException of the
\* try block and raises HTTPException(500, str(e)) in its place
ManychatWebhook(req) ==
    LET t == WebhookTry(req)
    IN  IF t.kind = "return"
        THEN [kind |-> "response", status |-> 200, detail |-> <<t.detail>>,
              scheduled |-> t.scheduled]
        ELSE [kind |-> "response", status |-> 500,
              detail |-> StrOfException(req, t), scheduled |-> t.scheduled]

\* the orchestrator as constructed, no call under way
CoreAtRest ==
    /\ entry = "none"
    /\ useAll = TRUE
    /\ hung = {}
    /\ ready = <<>>
    /\ task = [a \in Agents |-> "none"]
    /\ cpu = "none"
    /\ calls = [a \in Agents |-> 0]
    /\ procOut = NotDone
    /\ taskResult = NotDone
    /\ agentResponses = <<>>
    /\ slots = EmptySlots
    /\ vOut = NoCall
    /\ verified = <<>>
    /\ cOut = NoCall
    /\ messages = <<>>
    /\ citations = <<>>
    /\ saveLog = <<>>
    /\ result = <<>>
    /\ backendOut = NotDone
    /\ returned = <<>>
    /\ agentObj = [a \in Agents |-> NewAgent]
    /\ db = EmptyDb

InitWebhook ==
    /\ CoreAtRest
    /\ pc = "request"
    /\ input \in WebhookRequests
    /\ output = NoOutput

\* the request is handled and answered
HandleWebhook ==
    /\ pc = "request"
    /\ pc' = "responded"
    /\ output' = ManychatWebhook(input)
    /\ UNCHANGED <<entry, useAll, hung, ready, task, cpu, calls, procOut, taskResult,
                   agentResponses, slots, vOut, verified, cOut, messages, citations,
                   saveLog, result, backendOut, returned, input, agentObj, db>>

NextWebhook == HandleWebhook

SpecWebhook == InitWebhook /\ [][NextWebhook]_vars

---------------------------------------------------------------------------
(* TwilioService._split_message of src/services/twilio_service.py *)

\* the longest generated message and the largest generated max_length
MaxMsgLen == 5
MaxSplitLen == 4

\* message.rfind(c, 0, max_length): the last 0-based index below max_length
\* that holds c, or -1
Rfind(message, c, max_length) ==
    LET hits == {i \in 0..(SetMin({max_length, Len(message)}) - 1) :
                    message[i + 1] = c}
    IN  IF hits = {} THEN -1
        ELSE CHOOSE i \in hits : \A j \in hits : j <= i

\* a hard split one character past the limit
SplitIndexPastLimit(message, max_length) ==
    LET space_idx == Rfind(message, " ", max_length)
        newline_idx == Rfind(message, "\n", max_length)
        split_idx == IF 2 * newline_idx > max_length THEN newline_idx
                     ELSE space_idx
    IN  IF split_idx = -1 THEN max_length + 1 ELSE split_idx

\* a hard split one character short of the limit
SplitIndexShort(message, max_length) ==
    LET space_idx == Rfind(message, " ", max_length)
        newline_idx == Rfind(message, "\n", max_length)
        split_idx == IF 2 * newline_idx > max_length THEN newline_idx
                     ELSE space_idx
    IN  IF split_idx = -1
        THEN (IF max_length > 1 THEN max_length - 1 ELSE max_length)
        ELSE split_idx

\* the split index of one round of the loop: the last space below the limit,
\* the last newline instead when it lies past half the limit, the limit when
\* there is neither
SplitIndex(message, max_length) ==
    LET space_idx == Rfind(message, " ", max_length)
        newline_idx == Rfind(message, "\n", max_length)
        split_idx == IF 2 * newline_idx > max_length THEN newline_idx
                     ELSE space_idx
    IN  IF split_idx = -1 THEN max_length ELSE split_idx

\* a loop that always drops the character at the split index
RECURSIVE SplitLoopSkipping(_, _, _)
SplitLoopSkipping(message, max_length, chunks) ==
    IF Len(message) > max_length
    THEN LET split_idx == SplitIndex(message, max_length)
         IN  SplitLoopSkipping(LStrip(SubSeq(message, split_idx + 2, Len(message))),
                               max_length,
                               Append(chunks, SubSeq(message, 1, split_idx)))
    ELSE IF message # <<>> THEN Append(chunks, message)
    ELSE chunks

\* the while loop and the final append
RECURSIVE SplitLoop(_, _, _)
SplitLoop(message, max_length, chunks) ==
    IF Len(message) > max_length
    THEN LET split_idx == SplitIndex(message, max_length)
         IN  SplitLoop(LStrip(SubSeq(message, split_idx + 1, Len(message))),
                       max_length,
                       Append(chunks, SubSeq(message, 1, split_idx)))
    ELSE IF message # <<>> THEN Append(chunks, message)
    ELSE chunks

SplitMessage(message, max_length) ==
    IF Len(message) <= max_length THEN <<message>>
    ELSE SplitLoop(message, max_length, <<>>)

SplitAlphabet == {"a", " ", "\n", "\t"}

\* the messages: every text over the alphabet up to the bound, and the 250
\* letters of the repository's hard-split test
SplitMessages ==
    UNION {[1..n -> SplitAlphabet] : n \in 0..MaxMsgLen}

SplitInputs ==
    [kind : {"split"}, message : SplitMessages, max_length : 1..MaxSplitLen]
        \cup {[kind |-> "split", message |-> [i \in 1..250 |-> "a"],
               max_length |-> 100]}

InitSplit ==
    /\ CoreAtRest
    /\ pc = "split"
    /\ input \in SplitInputs
    /\ output = NoOutput

\* one call of _split_message
CallSplit ==
    /\ pc = "split"
    /\ pc' = "chunks"
    /\ output' = [kind |-> "chunks",
                  chunks |-> SplitMessage(input.message, input.max_length)]
    /\ UNCHANGED <<entry, useAll, hung, ready, task, cpu, calls, procOut, taskResult,
                   agentResponses, slots, vOut, verified, cOut, messages, citations,
                   saveLog, result, backendOut, returned, input, agentObj, db>>

NextSplit == CallSplit

SpecSplit == InitSplit /\ [][NextSplit]_vars

---------------------------------------------------------------------------
(* BaseAgent.execute called again and again on one agent instance *)

\* the number of execute calls made on the instance
MaxExecutes == 4

ExecuteInputs == [kind : {"execute"}, agent : Agents]

InitExecute ==
    /\ CoreAtRest
    /\ pc = "execute"
    /\ input \in ExecuteInputs
    /\ output = NoOutput

\* one execute call on the instance, its process call ending with b: the
\* fields of the instance are written and the result dictionary is returned
ExecuteCall(a, b) ==
    /\ pc = "execute"
    /\ a = input.agent
    /\ calls[a] < MaxExecutes
    /\ calls' = [calls EXCEPT ![a] = calls[a] + 1]
    /\ agentObj' = [agentObj EXCEPT ![a] = ExecuteWrites(agentObj[a], Process(a, b))]
    /\ taskResult' = [taskResult EXCEPT ![a] = <<Execute(a, Process(a, b))>>]
    /\ UNCHANGED <<pc, entry, useAll, hung, ready, task, cpu, procOut, agentResponses,
                   slots, vOut, verified, cOut, messages, citations, saveLog, result,
                   backendOut, returned, input, output, db>>

NextExecute == \E a \in Agents : \E b \in ProcessOutcomes(a) : ExecuteCall(a, b)

SpecExecute == InitExecute /\ [][NextExecute]_vars

---------------------------------------------------------------------------
(* ContextAgent.save_message called again and again on one store *)

\* the number of save_message calls made
MaxSaves == 4

Subscribers == {"subscriber-1", "subscriber-2"}

InitStore ==
    /\ CoreAtRest
    /\ pc = "store"
    /\ input = [kind |-> "store"]
    /\ output = NoOutput

\* one save_message call, the store failing it at the point named by store
\* or nowhere: the tables before the call, the session's view when the body
\* ended, whether the body raised and what the call returned are kept
SaveMessageCall(subscriber_id, role, store) ==
    /\ pc = "store"
    /\ Len(saveLog) < MaxSaves
    /\ LET content == IF role = "user" THEN Query ELSE VerifiedText
           tx == SaveTx(db, subscriber_id, role, content, Len(saveLog) + 1, store)
       IN  /\ db' = GetDb(db, tx)
           /\ saveLog' = Append(saveLog,
                  [subscriber_id |-> subscriber_id, role |-> role,
                   content |-> content, agents_used |-> <<>>, citations |-> <<>>,
                   ok |-> ~tx.raised, at |-> pc])
           /\ output' = [kind |-> "save", ok |-> ~tx.raised, raised |-> tx.raised,
                         before |-> db, session |-> tx.db]
    /\ UNCHANGED <<pc, entry, useAll, hung, ready, task, cpu, calls, procOut, taskResult,
                   agentResponses, slots, vOut, verified, cOut, messages, citations,
                   result, backendOut, returned, input, agentObj>>

NextStore ==
    \E subscriber_id \in Subscribers : \E role \in {"user", "assistant"} :
        \E store \in StorePoints : SaveMessageCall(subscriber_id, role, store)

SpecStore == InitStore /\ [][NextStore]_vars

---------------------------------------------------------------------------
(* Several process_query calls in flight on the one event loop.  Each action
   is the run of one call between two points where it hands the thread back:
   the awaits of gather and of the two completion calls.  pc, verified,
   messages and result are kept per call. *)

\* the number of calls in flight
MaxCalls == 2

Calls == 1..MaxCalls

\* the query of call c
QueryOf(c) == Query \o <<" ", ToString(c)>>

\* what the four agents answer to every call
ConcurrentResponses ==
    <<Execute("rag_agent", Process("rag_agent", "match")).value,
      Execute("context_agent", Process("context_agent", "nouser")).value,
      Execute("web_agent", Process("web_agent", "results")).value,
      Execute("gemini_agent", Process("gemini_agent", "text")).value>>

ConcurrentInputs == [kind : {"concurrent"}, subscribers : [Calls -> Subscribers]]

ConcurrentCompletions(text) == {CompRaise("completion timeout"), CompText(text)}

InitConcurrent ==
    /\ input \in ConcurrentInputs
    /\ pc = [c \in Calls |-> "idle"]
    /\ entry = "process_query"
    /\ useAll = TRUE
    /\ hung = {}
    /\ ready = <<>>
    /\ task = [a \in Agents |-> "none"]
    /\ cpu = "none"
    /\ calls = [a \in Agents |-> 0]
    /\ procOut = NotDone
    /\ taskResult = NotDone
    /\ agentResponses = ConcurrentResponses
    /\ slots = EmptySlots
    /\ vOut = NoCall
    /\ verified = [c \in Calls |-> <<>>]
    /\ cOut = NoCall
    /\ messages = [c \in Calls |-> <<>>]
    /\ citations = <<>>
    /\ saveLog = <<>>
    /\ result = [c \in Calls |-> <<>>]
    /\ backendOut = NotDone
    /\ returned = <<>>
    /\ output = NoOutput
    /\ agentObj = [a \in Agents |-> NewAgent]
    /\ db = EmptyDb

\* call c runs from its start to 'await asyncio.gather', from there to the
\* await of the verification completion, and from there, the completion
\* ending with out, to the await of the chunking completion
CallAdvance(c, out) ==
    /\ \/ /\ pc[c] = "idle"
          /\ out = NoCall
          /\ pc' = [pc EXCEPT ![c] = "gather"]
          /\ verified' = verified
       \/ /\ pc[c] = "gather"
          /\ out = NoCall
          /\ pc' = [pc EXCEPT ![c] = "verify"]
          /\ verified' = verified
       \/ /\ pc[c] = "verify"
          /\ out \in ConcurrentCompletions(VerifiedText)
          /\ pc' = [pc EXCEPT ![c] = "chunk"]
          /\ verified' = [verified EXCEPT
                             ![c] = VerifyResponses(agentResponses, out).text]
    /\ UNCHANGED <<entry, useAll, hung, ready, task, cpu, calls, procOut, taskResult,
                   agentResponses, slots, vOut, cOut, messages, citations, saveLog,
                   result, backendOut, returned, input, output, agentObj, db>>

\* the save of one turn of call c: the tables and the log after it
SaveTurn(st, c, role, content, store) ==
    [db |-> SaveMessageDb(st.db, input.subscribers[c], role, content,
                          Len(st.log) + 1, store),
     log |-> Append(st.log,
                [subscriber_id |-> input.subscribers[c], role |-> role,
                 content |-> content, ok |-> SaveMessage(store).ok, call |-> c])]

\* a call that hands the thread back between its two saves
CallFinishSuspending(c, out, s1, s2) ==
    \/ /\ pc[c] = "chunk"
       /\ out \in ConcurrentCompletions(<<"A", " ", "B">>)
       /\ LET ms == GenerateConversationalResponse(verified[c], out).value
              st == SaveTurn([db |-> db, log |-> saveLog], c, "user", QueryOf(c), s1)
          IN  /\ messages' = [messages EXCEPT ![c] = ms]
              /\ db' = st.db
              /\ saveLog' = st.log
       /\ pc' = [pc EXCEPT ![c] = "save_assistant"]
       /\ UNCHANGED <<entry, useAll, hung, ready, task, cpu, calls, procOut,
                      taskResult, agentResponses, slots, vOut, verified, cOut,
                      citations, result, backendOut, returned, input, output,
                      agentObj>>
    \/ /\ pc[c] = "save_assistant"
       /\ LET st == SaveTurn([db |-> db, log |-> saveLog], c, "assistant",
                             JoinSpace(messages[c]), s2)
          IN  /\ db' = st.db
              /\ saveLog' = st.log
       /\ pc' = [pc EXCEPT ![c] = "done"]
       /\ result' = [result EXCEPT ![c] = <<[messages |-> messages[c]]>>]
       /\ UNCHANGED <<entry, useAll, hung, ready, task, cpu, calls, procOut,
                      taskResult, agentResponses, slots, vOut, verified, cOut,
                      messages, citations, backendOut, returned, input, output,
                      agentObj>>

\* the chunking completion of call c ends with out: the call runs to its
\* return without handing the thread back, for save_message awaits nothing;
\* both turns are saved, the store answering s1 and s2
CallFinish(c, out, s1, s2) ==
    /\ pc[c] = "chunk"
    /\ out \in ConcurrentCompletions(<<"A", " ", "B">>)
    /\ LET ms == GenerateConversationalResponse(verified[c], out).value
           st1 == SaveTurn([db |-> db, log |-> saveLog], c, "user", QueryOf(c), s1)
           st2 == SaveTurn(st1, c, "assistant", JoinSpace(ms), s2)
       IN  /\ messages' = [messages EXCEPT ![c] = ms]
           /\ db' = st2.db
           /\ saveLog' = st2.log
           /\ result' = [result EXCEPT ![c] =
                  <<[messages |-> ms,
                     agents_used |-> AgentsUsed(agentResponses),
                     citations |-> ExtractCitations(verified[c]),
                     metadata |-> [agent_responses |-> agentResponses,
                                   verified_answer |-> verified[c]]]>>]
    /\ pc' = [pc EXCEPT ![c] = "done"]
    /\ UNCHANGED <<entry, useAll, hung, ready, task, cpu, calls, procOut, taskResult,
                   agentResponses, slots, vOut, verified, cOut, citations,
                   backendOut, returned, input, output, agentObj>>

NextConcurrent ==
    \/ \E c \in Calls :
          \E out \in {NoCall} \cup ConcurrentCompletions(VerifiedText) :
              CallAdvance(c, out)
    \/ \E c \in Calls : \E out \in ConcurrentCompletions(<<"A", " ", "B">>) :
          \E s1, s2 \in StoreOutcomes : CallFinish(c, out, s1, s2)

SpecConcurrent == InitConcurrent /\ [][NextConcurrent]_vars

---------------------------------------------------------------------------
(* TwilioService.send_messages of src/services/twilio_service.py *)

\* the default max_length of _split_message
DEFAULT_MAX_LENGTH == 1500

\* the longest list of messages handed to send_messages
MaxSendList == 2

\* the messages: short ones, the empty one, and two that exceed the default
\* max_length, one without and one with a space to split at
SendTexts ==
    {<<>>, <<"a">>, <<"b", " ", "c">>,
     [i \in 1..(DEFAULT_MAX_LENGTH + 1) |-> "a"],
     [i \in 1..(DEFAULT_MAX_LENGTH + 2) |-> IF i = 3 THEN " " ELSE "b"]}

SendInputs ==
    [kind : {"send"}, client : BOOLEAN,
     messages : UNION {[1..n -> SendTexts] : n \in 0..MaxSendList}]

\* final_messages: the chunks of every message, in list order
RECURSIVE FinalMessages(_)
FinalMessages(msgs) ==
    IF msgs = <<>> THEN <<>>
    ELSE SplitMessage(Head(msgs), DEFAULT_MAX_LENGTH) \o FinalMessages(Tail(msgs))

\* send_message: False without a client or when messages.create raises
SendMessage(client, api) == client /\ api = "ok"

\* a loop that goes on to the next chunk after a failed send
SendLoopStepContinuing(st, ok) ==
    LET attempts == Append(st.attempts, [body |-> st.final[Len(st.attempts) + 1],
                                         ok |-> ok])
    IN  [st EXCEPT !.attempts = attempts,
                   !.returned = IF Len(attempts) = Len(st.final) THEN <<TRUE>>
                                ELSE <<>>]

\* one round of the loop of send_messages, the send answering ok: the chunk is
\* attempted, a failure returns False, the last chunk sent returns True
SendLoopStep(st, ok) ==
    LET attempts == Append(st.attempts, [body |-> st.final[Len(st.attempts) + 1],
                                         ok |-> ok])
    IN  [st EXCEPT !.attempts = attempts,
                   !.returned = IF ~ok THEN <<FALSE>>
                                ELSE IF Len(attempts) = Len(st.final) THEN <<TRUE>>
                                ELSE <<>>]

InitSend ==
    /\ CoreAtRest
    /\ pc = "send_messages"
    /\ input \in SendInputs
    /\ output = NoOutput

\* send_messages is entered: the messages are split and flattened; with no
\* chunk the loop is skipped and True is returned
SendMessagesStart ==
    /\ pc = "send_messages"
    /\ LET final == FinalMessages(input.messages)
       IN  /\ output' = [kind |-> "sending", final |-> final, attempts |-> <<>>,
                         returned |-> IF final = <<>> THEN <<TRUE>> ELSE <<>>]
           /\ pc' = IF final = <<>> THEN "returned" ELSE "sending"
    /\ UNCHANGED <<entry, useAll, hung, ready, task, cpu, calls, procOut, taskResult,
                   agentResponses, slots, vOut, verified, cOut, messages, citations,
                   saveLog, result, backendOut, returned, input, agentObj, db>>

\* the typing delay, then 'await self.send_message' of the next chunk, the
\* Twilio call answering api
SendNextChunk(api) ==
    /\ pc = "sending"
    /\ output' = SendLoopStep(output, SendMessage(input.client, api))
    /\ pc' = IF output'.returned = <<>> THEN "sending" ELSE "returned"
    /\ UNCHANGED <<entry, useAll, hung, ready, task, cpu, calls, procOut, taskResult,
                   agentResponses, slots, vOut, verified, cOut, messages, citations,
                   saveLog, result, backendOut, returned, input, agentObj, db>>

NextSend ==
    \/ SendMessagesStart
    \/ \E api \in {"ok", "raise"} : SendNextChunk(api)

SpecSend == InitSend /\ [][NextSend]_vars

---------------------------------------------------------------------------
(* Claims *)

\* the positions of process_query after _verify_responses returned
AfterVerify == {"chunk", "save_user", "save_assistant", "done"}

\* the positions of process_query after gather returned
AfterGather == {"verify"} \cup AfterVerify

\* whether the process call of agent a was made and raised
ProcessRaised(a) == procOut[a] # <<>> /\ procOut[a][1].kind = "raise"

\* C1: process_query never ends by raising, whatever the agents' process
\* calls, the verification call, the chunking call and the two saves did; it
\* has a result exactly when it has returned, and the result is an
\* OrchestrationResult.
C1_ReturnsWithoutRaising ==
    /\ pc # "raised"
    /\ (pc = "done") <=> (result # <<>>)
    /\ result # <<>> =>
          /\ Len(result) = 1
          /\ DOMAIN result[1] = {"messages", "agents_used", "citations", "metadata"}

\* a call that returned although an agent, the verification call, the
\* chunking call and both saves failed
C1_Witness ==
    /\ pc = "done"
    /\ result # <<>>
    /\ \E a \in Agents : ProcessRaised(a)
    /\ vOut.kind = "raise"
    /\ cOut.kind = "raise"
    /\ Len(saveLog) = 2 /\ ~saveLog[1].ok /\ ~saveLog[2].ok

\* C2: every returned result has between 1 and MAX_MESSAGES_PER_RESPONSE
\* messages.
C2_MessageCount ==
    pc = "done" =>
        /\ Len(result[1].messages) >= 1
        /\ Len(result[1].messages) <= MAX_MESSAGES_PER_RESPONSE

\* a result whose chunking output had more segments than the cap
C2_Witness ==
    /\ pc = "done"
    /\ cOut = CompText(ChunkOverflow)
    /\ Len(Split(cOut.text)) > MAX_MESSAGES_PER_RESPONSE
    /\ Len(result[1].messages) = MAX_MESSAGES_PER_RESPONSE

\* C3: execute never raises; when process raised, the record has
\* success = false, an empty response, confidence 0 and an error; when process
\* returned, it has success = true and no error.
C3_ExecuteNormalizes ==
    \A a \in Agents :
        taskResult[a] # <<>> =>
            LET r == taskResult[a][1]
                p == procOut[a][1]
            IN  /\ r.kind = "return"
                /\ p.kind = "raise" =>
                      /\ r.value.success = FALSE
                      /\ r.value.response = <<>>
                      /\ r.value.confidence = 0
                      /\ r.value.error # <<>>
                /\ p.kind = "return" =>
                      /\ r.value.success = TRUE
                      /\ r.value.error = <<>>

\* every agent variant has run, three with a process that raised and one with
\* a process that returned
C3_Witness ==
    /\ \A a \in Agents : taskResult[a] # <<>>
    /\ \A a \in Agents \ {"context_agent"} : ProcessRaised(a)
    /\ procOut["context_agent"][1].kind = "return"
    /\ taskResult["rag_agent"][1].value.success = FALSE
    /\ taskResult["context_agent"][1].value.success = TRUE

\* C4: no agent is executed twice; with use_all_agents = false, and so through
\* quick_response, the web and Gemini agents are never executed; a call that
\* returned executed every dispatched agent exactly once.
C4_FanOut ==
    /\ \A a \in Agents : calls[a] <= 1
    /\ entry = "quick_response" => ~useAll
    /\ (pc # "idle" /\ ~useAll) =>
          calls["web_agent"] = 0 /\ calls["gemini_agent"] = 0
    /\ pc = "done" =>
          \A a \in Agents :
              calls[a] = IF useAll \/ a \in {"rag_agent", "context_agent"}
                         THEN 1 ELSE 0

\* a quick_response that returned
C4_Witness ==
    /\ pc = "done"
    /\ entry = "quick_response"
    /\ calls["rag_agent"] = 1 /\ calls["context_agent"] = 1
    /\ calls["web_agent"] = 0 /\ calls["gemini_agent"] = 0

\* the response of agent a if its execute returned success = true, else ""
SucceededResponse(a) ==
    IF /\ taskResult[a] # <<>>
       /\ taskResult[a][1].kind = "return"
       /\ taskResult[a][1].value.success
    THEN taskResult[a][1].value.response
    ELSE <<>>

\* the scripture response is one the fallback prefers: non-empty and without
\* "No relevant scripture"
ScriptureUsable ==
    /\ SucceededResponse("rag_agent") # <<>>
    /\ ~Contains(SucceededResponse("rag_agent"), <<"No relevant scripture">>)

\* C5 as claimed: when the verification call raises and the Gemini agent
\* succeeded with a non-empty response, the verified answer is that response,
\* whatever the scripture agent returned.
C5_GeminiFirst ==
    (/\ pc \in AfterVerify
     /\ vOut.kind = "raise"
     /\ SucceededResponse("gemini_agent") # <<>>)
    => verified = SucceededResponse("gemini_agent")

\* C5 as amended: when the verification call raises and the Gemini agent
\* succeeded with a non-empty response, the verified answer is that response
\* unless the scripture agent succeeded with a non-empty response without
\* "No relevant scripture"; then it is the scripture response.
C5_GeminiAfterScripture ==
    (/\ pc \in AfterVerify
     /\ vOut.kind = "raise"
     /\ SucceededResponse("gemini_agent") # <<>>)
    => verified = IF ScriptureUsable
                  THEN SucceededResponse("rag_agent")
                  ELSE SucceededResponse("gemini_agent")

\* the verification call raised, the scripture agent found nothing, and the
\* verified answer is the Gemini response
C5_Witness ==
    /\ pc \in AfterVerify
    /\ vOut.kind = "raise"
    /\ SucceededResponse("gemini_agent") = GeminiResponse
    /\ SucceededResponse("rag_agent") = NoScriptureResponse
    /\ verified = GeminiResponse

\* C6 as claimed: when the verification call raises, there is no Gemini
\* response and the scripture response is the "no relevant scripture"
\* sentence, the verified answer is the apology, and that sentence is never
\* the verified answer of a failed verification.
C6_ApologyForSentinel ==
    (pc \in AfterVerify /\ vOut.kind = "raise") =>
        /\ (/\ SucceededResponse("gemini_agent") = <<>>
            /\ SucceededResponse("rag_agent") = NoScriptureResponse)
           => verified = Apology
        /\ verified # NoScriptureResponse

\* C6 as amended: when the verification call raises and there is no Gemini
\* response, the verified answer is the "no relevant scripture" sentence if
\* that is the scripture response, and the apology only if there is no
\* scripture response either.
C6_SentinelBeforeApology ==
    (/\ pc \in AfterVerify
     /\ vOut.kind = "raise"
     /\ SucceededResponse("gemini_agent") = <<>>)
    => /\ SucceededResponse("rag_agent") = NoScriptureResponse
          => verified = NoScriptureResponse
       /\ SucceededResponse("rag_agent") = <<>>
          => verified = <<"I apologize, but I couldn't generate a verified answer at this time.">>

\* the verification call raised with no Gemini response and the sentence as
\* the scripture response
C6_Witness ==
    /\ pc \in AfterVerify
    /\ vOut.kind = "raise"
    /\ SucceededResponse("gemini_agent") = <<>>
    /\ SucceededResponse("rag_agent") = NoScriptureResponse
    /\ verified = NoScriptureResponse

\* C7: while verification, chunking or persistence of the call runs, and when
\* the call has returned, every dispatched agent task is done and none waits
\* to be started.
C7_JoinBeforeVerify ==
    pc \in AfterGather =>
        /\ ready = <<>>
        /\ \A i \in 1..Len(Dispatched(useAll)) : task[Dispatched(useAll)[i]] = "done"
        /\ \A a \in Agents : task[a] \in {"none", "done"}

\* verification has started on a call that dispatched all four agents
C7_Witness ==
    /\ pc = "verify"
    /\ useAll
    /\ \A a \in Agents : task[a] = "done" /\ calls[a] = 1

\* C8 as claimed: every dispatched agent whose own backend call is not the
\* one that hangs is started and completes its execute.
C8_NonBlocking ==
    \A a \in Agents :
        []((pc = "gather" /\ task[a] # "none" /\ a \notin hung)
           => <>(task[a] = "done"))

\* no dispatched agent's execute returned success = true
NoSuccess == \A a \in Agents : SucceededResponse(a) = <<>> /\
                 (taskResult[a] # <<>> => ~taskResult[a][1].value.success)

\* C9: when no dispatched agent succeeded, the call does not raise, the four
\* prompt slots hold their placeholders, and a failed verification call gives
\* the apology as the verified answer.
C9_TotalFailure ==
    (pc \in AfterGather \cup {"raised"} /\ NoSuccess) =>
        /\ pc # "raised"
        /\ slots = [rag     |-> <<"No scripture database results">>,
                    web     |-> <<"No web search results">>,
                    gemini  |-> <<"No Gemini response">>,
                    context |-> <<"No conversation history">>]
        /\ (pc \in AfterVerify /\ vOut.kind = "raise") =>
              verified = <<"I apologize, but I couldn't generate a verified answer at this time.">>

\* a call that returned the apology after all four agents and the
\* verification call failed
C9_Witness ==
    /\ pc = "done"
    /\ useAll
    /\ \A a \in Agents : ProcessRaised(a)
    /\ NoSuccess
    /\ vOut.kind = "raise"
    /\ result[1].metadata.verified_answer = Apology

\* the chunking output split on the delimiter, each segment trimmed, the
\* segments that are empty after trimming dropped
TrimmedSegments(t) ==
    LET parts == Split(t)
        kept == SelectSeq(parts, LAMBDA x : Strip(x) # <<>>)
    IN  [i \in 1..Len(kept) |-> Strip(kept[i])]

\* C10: when the chunking call returns a text with a non-blank segment,
\* messages is the first MAX_MESSAGES_PER_RESPONSE trimmed non-empty segments
\* of that text, in order; 'A|||B|||  ||| C ' gives ['A', 'B', 'C'].
C10_ChunkSplit ==
    (pc = "save_user" /\ cOut.kind = "return") =>
        /\ TrimmedSegments(cOut.text) # <<>> =>
              /\ Len(messages) =
                    (IF Len(TrimmedSegments(cOut.text)) < MAX_MESSAGES_PER_RESPONSE
                     THEN Len(TrimmedSegments(cOut.text))
                     ELSE MAX_MESSAGES_PER_RESPONSE)
              /\ \A i \in 1..Len(messages) : messages[i] = TrimmedSegments(cOut.text)[i]
        /\ cOut.text = ChunkExample => messages = << <<"A">>, <<"B">>, <<"C">> >>

\* a chunking output of seven segments was cut to the first six
C10_Witness ==
    /\ pc = "save_user"
    /\ cOut = CompText(ChunkOverflow)
    /\ Len(TrimmedSegments(cOut.text)) = MAX_MESSAGES_PER_RESPONSE + 1
    /\ messages = [i \in 1..MAX_MESSAGES_PER_RESPONSE |-> <<"A">>]

\* whether the chunking call failed or gave nothing to send: it raised, its
\* message had no content, or no segment of its text is non-blank
ChunkGaveNothing ==
    \/ cOut.kind \in {"raise", "nocontent"}
    \/ cOut.kind = "return" /\ \A i \in 1..Len(Split(cOut.text)) :
                                  \A j \in 1..Len(Split(cOut.text)[i]) :
                                      IsSpace(Split(cOut.text)[i][j])

\* C11: if the chunking completion call raises, or its output has no
\* non-blank segment, messages is exactly [verified_answer] and no exception
\* leaves the chunking step.
C11_ChunkFallback ==
    /\ cOut.kind # "none" => pc # "raised"
    /\ (pc = "save_user" /\ ChunkGaveNothing) => messages = <<verified>>

\* the chunking call returned ' ||| ' and the one message is the verified answer
C11_Witness ==
    /\ pc = "save_user"
    /\ cOut = CompText(<<" ", "|", "|", "|", " ">>)
    /\ ChunkGaveNothing
    /\ messages = <<verified>>

\* whether the fan-out, the verification, the chunking and the citation
\* extraction of the call are over
PipelineFinished ==
    /\ ready = <<>>
    /\ \A a \in Agents : task[a] \in {"none", "done"}
    /\ \A a \in Agents : InSeq(a, Dispatched(useAll)) => taskResult[a] # <<>>
    /\ vOut.kind # "none"
    /\ cOut.kind # "none"
    /\ citations = ExtractCitations(verified)

\* C12: a process_query call invokes save_message exactly twice, first with
\* role 'user' and then with role 'assistant', and both invocations happen
\* after the call's fan-out, verification, chunking and citation extraction
\* have finished.
C12_TwoSavesAfterPipeline ==
    /\ Len(saveLog) <= 2
    /\ pc = "done" => Len(saveLog) = 2
    /\ pc = "save_assistant" => Len(saveLog) = 1
    /\ pc \notin {"save_assistant", "done"} => saveLog = <<>>
    /\ Len(saveLog) >= 1 => saveLog[1].role = "user" /\ saveLog[1].at = "save_user"
    /\ Len(saveLog) >= 2 =>
          saveLog[2].role = "assistant" /\ saveLog[2].at = "save_assistant"
    /\ saveLog # <<>> => PipelineFinished

\* a call with all four agents returned after its two saves
C12_Witness ==
    /\ pc = "done"
    /\ useAll
    /\ \A a \in Agents : calls[a] = 1
    /\ Len(saveLog) = 2
    /\ saveLog[1].role = "user"
    /\ saveLog[2].role = "assistant"

\* the OrchestrationResult that the fan-out, the verification and the chunking
\* of the call determine, whatever the store did
ResultOfPipeline ==
    [messages |-> GenerateConversationalResponse(verified, cOut).value,
     agents_used |->
         LET ok == SelectSeq(agentResponses, LAMBDA r : r.success)
         IN  [i \in 1..Len(ok) |-> ok[i].agent],
     citations |-> ExtractCitations(verified),
     metadata |-> [agent_responses |-> agentResponses, verified_answer |-> verified]]

\* C13: a failure of either save_message call is not raised to the caller
\* and the returned OrchestrationResult is the one returned when both saves
\* succeed; the assistant turn's save is attempted after a failed user turn's
\* save.
C13_SaveFailureInvisible ==
    /\ pc = "raised" => cOut.kind = "none"
    /\ pc = "done" =>
          /\ result = <<ResultOfPipeline>>
          /\ Len(saveLog) = 2
          /\ saveLog[2].role = "assistant"

\* a call returned its result after both of its saves failed
C13_Witness ==
    /\ pc = "done"
    /\ Len(saveLog) = 2
    /\ ~saveLog[1].ok
    /\ ~saveLog[2].ok
    /\ result = <<ResultOfPipeline>>
    /\ result[1].messages # <<>>

\* the messages with one space between each two neighbours, built from the
\* last message back
RECURSIVE SingleSpaced(_)
SingleSpaced(ms) ==
    IF Len(ms) = 0 THEN <<>>
    ELSE IF Len(ms) = 1 THEN ms[1]
    ELSE SingleSpaced(SubSeq(ms, 1, Len(ms) - 1)) \o <<" ">> \o ms[Len(ms)]

\* C14: the user-role message process_query persists has the query as its
\* content; the assistant-role message has the returned messages joined by
\* single spaces as its content and carries the agents_used and the citations
\* of the returned OrchestrationResult.
C14_PersistedTurns ==
    /\ Len(saveLog) >= 1 =>
          /\ saveLog[1].role = "user"
          /\ saveLog[1].content = <<"What", " ", "is", " ", "dharma", "?">>
          /\ saveLog[1].subscriber_id = "subscriber-1"
    /\ pc = "done" =>
          /\ saveLog[2].role = "assistant"
          /\ saveLog[2].content = SingleSpaced(result[1].messages)
          /\ saveLog[2].agents_used = result[1].agents_used
          /\ saveLog[2].citations = result[1].citations
          /\ saveLog[2].subscriber_id = "subscriber-1"

\* a call returned three messages and a citation and persisted "A B C"
C14_Witness ==
    /\ pc = "done"
    /\ result[1].messages = << <<"A">>, <<"B">>, <<"C">> >>
    /\ saveLog[2].content = <<"A", " ", "B", " ", "C">>
    /\ Len(result[1].citations) = 1
    /\ saveLog[2].citations = result[1].citations
    /\ Len(saveLog[2].agents_used) >= 2

\* whether agent a was dispatched in this call and its AgentResult has
\* success = true
DispatchedAndSucceeded(a) ==
    /\ calls[a] = 1
    /\ taskResult[a] # <<>>
    /\ taskResult[a][1].kind = "return"
    /\ taskResult[a][1].value.success

\* C15: agents_used of the OrchestrationResult holds exactly the names of
\* the dispatched agents whose AgentResult has success = true, in dispatch
\* order (Scripture-Search, History, Web-Search, General-Knowledge); a failed
\* agent and an agent that was not dispatched are never listed.
C15_AgentsUsed ==
    pc = "done" =>
        result[1].agents_used =
            (IF DispatchedAndSucceeded("rag_agent")
             THEN << <<"RAG", "_", "Scripture", "_", "Agent">> >> ELSE <<>>)
            \o (IF DispatchedAndSucceeded("context_agent")
                THEN << <<"Context", "_", "Memory", "_", "Agent">> >> ELSE <<>>)
            \o (IF DispatchedAndSucceeded("web_agent")
                THEN << <<"Web", "_", "Search", "_", "Agent">> >> ELSE <<>>)
            \o (IF DispatchedAndSucceeded("gemini_agent")
                THEN << <<"Gemini", "_", "AI", "_", "Agent">> >> ELSE <<>>)

\* all four agents were dispatched, the scripture and the general-knowledge
\* agent failed, and the result lists the other two
C15_Witness ==
    /\ pc = "done"
    /\ useAll
    /\ ProcessRaised("rag_agent")
    /\ ProcessRaised("gemini_agent")
    /\ result[1].agents_used = << <<"Context", "_", "Memory", "_", "Agent">>,
                                  <<"Web", "_", "Search", "_", "Agent">> >>

\* the parts that are whole citation sentences, and what each one cites
SentenceParts == {"gita", "katha", "veda"}

CitedBy(p) ==
    CASE p = "gita"  -> [book |-> <<"Bhagavad Gita">>, chapter |-> 2, verse |-> 47,
                         tail |-> <<",", " ", "Chapter", " ", "2",
                                    ",", " ", "Verse", " ", "47">>]
      [] p = "katha" -> [book |-> <<"Katha Upanishad">>, chapter |-> 7, verse |-> 2,
                         tail |-> <<",", " ", "Chapter", " ", "7",
                                    ",", " ", "Verse", " ", "2">>]
      [] p = "veda"  -> [book |-> <<"Rig Veda">>, chapter |-> 2, verse |-> 2,
                         tail |-> <<",", " ", "Chapter", " ", "2",
                                    ",", " ", "Verse", " ", "2">>]

\* the citation sentences of the answer, in order of appearance
SentencesOf(ps) == SelectSeq(ps, LAMBDA p : p \in SentenceParts)

\* whether text s ends with text e
EndsWith(s, e) ==
    Len(e) <= Len(s) /\ SubSeq(s, Len(s) - Len(e) + 1, Len(s)) = e

\* C16: citation extraction returns exactly one Citation per occurrence of
\* the sentence 'As mentioned in <Book>, Chapter <N>, Verse <M>' in the
\* verified answer, whatever its case, in order of appearance, a repeated
\* reference giving one entry per occurrence, and each Citation's source is
\* '<book>, Chapter <chapter>, Verse <verse>'.  The book runs from the first
\* opening to the comma, so it ends with the sentence's book and is that book
\* when no unfinished opening stands before the sentence.
C16_CitationPerSentence ==
    (input.kind = "cite" /\ pc = "save_user") =>
        LET sent == SentencesOf(input.parts)
        IN  /\ Len(citations) = Len(sent)
            /\ \A k \in 1..Len(citations) :
                  /\ citations[k].chapter = CitedBy(sent[k]).chapter
                  /\ citations[k].verse = CitedBy(sent[k]).verse
                  /\ EndsWith(citations[k].book, CitedBy(sent[k]).book)
                  /\ citations[k].source =
                        citations[k].book \o CitedBy(sent[k]).tail
            /\ (\A i \in 1..Len(input.parts) : input.parts[i] # "opening") =>
                  \A k \in 1..Len(citations) :
                      citations[k].book = CitedBy(sent[k]).book

\* an answer that cites the same verse twice after an upper-case citation
\* gave three citations, the last two equal
C16_Witness ==
    /\ input.kind = "cite"
    /\ pc = "save_user"
    /\ input.parts = <<"katha", "gita", "gita">>
    /\ Len(citations) = 3
    /\ citations[1].source = <<"Katha Upanishad", ",", " ", "Chapter", " ", "7",
                               ",", " ", "Verse", " ", "2">>
    /\ citations[2] = citations[3]

\* all four agents were dispatched and succeeded, and the scripture response
\* holds a citation sentence
AllSucceededCiting ==
    /\ useAll
    /\ \A a \in Agents : DispatchedAndSucceeded(a)
    /\ backendOut["rag_agent"] = <<"matchcite">>
    /\ \E i \in 1..(Len(SucceededResponse("rag_agent")) - 12) :
          SubSeq(SucceededResponse("rag_agent"), i, i + 12) =
              <<"As mentioned in", " ", "Bhagavad Gita", ",", " ",
                "Chapter", " ", "2", ",", " ", "Verse", " ", "47">>

\* C17 as stated: when all four agents succeed and the scripture response
\* holds a citation sentence, the returned OrchestrationResult has at least
\* one citation.
C17_CitationFromScripture ==
    (pc = "done" /\ AllSucceededCiting) => Len(result[1].citations) >= 1

\* whether the text holds a citation sentence the pattern matches
HoldsCitation(t) == \E i \in 1..Len(t) : CitationAt(t, i)

\* C17: when all four agents succeed and the scripture response holds a
\* citation sentence, the returned OrchestrationResult has at least one
\* citation if the verification call failed (the verified answer is then the
\* scripture response) or the text it returned holds a citation sentence
\* itself; when the verification call returned a text without one, the result
\* has no citation.
C17_CitationFromVerified ==
    (pc = "done" /\ AllSucceededCiting) =>
        /\ (vOut.kind \in {"raise", "nocontent"} \/ HoldsCitation(vOut.text)) =>
              Len(result[1].citations) >= 1
        /\ (vOut.kind = "return" /\ ~HoldsCitation(vOut.text)) =>
              result[1].citations = <<>>

\* the verification call failed, the scripture response became the verified
\* answer and its citation is in the result
C17_Witness ==
    /\ pc = "done"
    /\ AllSucceededCiting
    /\ vOut.kind = "raise"
    /\ result[1].metadata.verified_answer = CitingPassageResponse
    /\ Len(result[1].citations) = 1
    /\ result[1].citations[1].book = <<"Bhagavad Gita">>

\* the second of two quick_response calls has returned
SecondReturned == input.kind = "fakes" /\ pc = "done" /\ returned # <<>>

\* C18 as stated: two quick_response calls in sequence with the same query
\* and subscriber, every backend a deterministic fake and a store that keeps
\* what the first call saved, return the same messages and the same
\* citations.
C18_Idempotent ==
    (SecondReturned /\ input.store = "ok") =>
        /\ result[1].messages = returned[1].messages
        /\ result[1].citations = returned[1].citations

\* C18: two quick_response calls in sequence on deterministic fakes return the
\* same messages and the same citations when the History agent answers the
\* same in both calls (the store kept nothing of the first call) or when the
\* verification answer does not depend on the History slot of its prompt (the
\* call fails or the fake ignores the slot).
C18_IdempotentSameHistory ==
    (/\ SecondReturned
     /\ \/ result[1].metadata.agent_responses = returned[1].metadata.agent_responses
        \/ input.verify # "echo_context") =>
        /\ result[1].messages = returned[1].messages
        /\ result[1].citations = returned[1].citations

\* the store kept the first call's turns, the second call's History agent
\* answered with them, the verification failed both times and the two results
\* carry the same messages and citations
C18_Witness ==
    /\ SecondReturned
    /\ input.store = "ok"
    /\ input.verify = "raise"
    /\ input.rag = "matchcite"
    /\ Len(saveLog) = 4
    /\ result[1].metadata.agent_responses # returned[1].metadata.agent_responses
    /\ result[1].messages = returned[1].messages
    /\ result[1].citations = returned[1].citations
    /\ Len(result[1].citations) = 1

\* whether the backend of agent a was unreachable or failed in this call
BackendFailed(a) ==
    \/ a \in {"rag_agent", "gemini_agent"} /\ backendOut[a] = <<"error">>
    \/ a = "context_agent" /\ backendOut[a] = <<"dberror">>

\* whether the AgentResult of agent a is a failure with an error string
FailedResult(a) ==
    /\ taskResult[a] # <<>>
    /\ taskResult[a][1].kind = "return"
    /\ ~taskResult[a][1].value.success
    /\ taskResult[a][1].value.error # <<>>

\* C19 as stated: a failing backend of the Scripture-Search, General-Knowledge
\* or History agent surfaces as an AgentResult with success = false and an
\* error string; a store read failure makes the History result a failure.
C19_BackendFailureSurfaces ==
    \A a \in {"rag_agent", "gemini_agent", "context_agent"} :
        BackendFailed(a) => FailedResult(a)

\* C19: a failing backend of the Scripture-Search or General-Knowledge agent
\* surfaces as an AgentResult with success = false and an error string; a
\* store read failure of the History agent is read as an empty history, and
\* its AgentResult has success = true, the response 'No previous
\* conversation.', confidence 0 and no error.
C19_FailureSurfacesButHistory ==
    /\ \A a \in {"rag_agent", "gemini_agent"} : BackendFailed(a) => FailedResult(a)
    /\ BackendFailed("context_agent") =>
          /\ taskResult["context_agent"] # <<>>
          /\ taskResult["context_agent"][1].kind = "return"
          /\ taskResult["context_agent"][1].value.success
          /\ taskResult["context_agent"][1].value.response =
                <<"No previous conversation.">>
          /\ taskResult["context_agent"][1].value.confidence = 0
          /\ taskResult["context_agent"][1].value.error = <<>>

\* in one call the scripture index was unreachable and the store read failed:
\* the scripture result is a failure, the History result a success
C19_Witness ==
    /\ BackendFailed("rag_agent")
    /\ FailedResult("rag_agent")
    /\ BackendFailed("context_agent")
    /\ taskResult["context_agent"][1].value.success
    /\ pc = "done"
    /\ result[1].agents_used = << <<"Context", "_", "Memory", "_", "Agent">> >>

\* C20: when the web-search backend returns zero results, or the backend
\* call itself fails, the Web-Search agent's execute returns success = true
\* with confidence 0, empty sources and the response 'No web results found
\* for this query.', not a failed AgentResult.
C20_WebEmptyIsSuccess ==
    (backendOut["web_agent"] # <<>>
     /\ backendOut["web_agent"][1] \in {"noresults", "httperror"}) =>
        /\ taskResult["web_agent"] # <<>>
        /\ taskResult["web_agent"][1].kind = "return"
        /\ taskResult["web_agent"][1].value.success
        /\ taskResult["web_agent"][1].value.confidence = 0
        /\ taskResult["web_agent"][1].value.sources = <<>>
        /\ taskResult["web_agent"][1].value.response =
              <<"No web results found for this query.">>
        /\ taskResult["web_agent"][1].value.error = <<>>

\* the search backend call failed and the call returned with the Web-Search
\* agent among the agents used
C20_Witness ==
    /\ backendOut["web_agent"] = <<"httperror">>
    /\ taskResult["web_agent"][1].value.success
    /\ taskResult["web_agent"][1].value.confidence = 0
    /\ pc = "done"
    /\ \E i \in 1..Len(result[1].agents_used) :
          result[1].agents_used[i] = <<"Web", "_", "Search", "_", "Agent">>

RagReturned ==
    /\ input.kind = "backend"
    /\ input.agent = "rag_agent"
    /\ input.outcome = "given"
    /\ taskResult["rag_agent"] # <<>>

\* the ranks of the matches whose score is above 0.7, in rank order
SurvivingRanks ==
    SelectSeq([i \in 1..Len(input.matches) |-> i],
              LAMBDA i : input.matches[i].score >= 701)

\* whether atom x occurs in the sequence s
Occurs(x, s) == \E i \in 1..Len(s) : s[i] = x

\* C22: in the scripture agent's result no passage with a score of 0.7 or
\* less contributes to the response text or to sources, and sources has
\* exactly one entry per surviving passage, in retrieval rank order.
C22_ThresholdAndSources ==
    RagReturned =>
        LET r == taskResult["rag_agent"][1].value
        IN  /\ r.success
            /\ Len(r.sources) = Len(SurvivingRanks)
            /\ \A k \in 1..Len(r.sources) :
                  r.sources[k] =
                      (IF input.matches[SurvivingRanks[k]].source = <<>>
                       THEN "Unknown" ELSE RankSource[SurvivingRanks[k]])
            /\ \A i \in 1..Len(input.matches) :
                  input.matches[i].score <= 700 =>
                      /\ ~Occurs(RankText[i], r.response)
                      /\ ~Occurs(RankSource[i], r.response)
                      /\ ~Occurs(RankSource[i], r.sources)
            /\ \A k \in 1..Len(SurvivingRanks) :
                  Occurs(RankText[SurvivingRanks[k]], r.response)

\* of three matches with scores 0.857, 0.701 and 0.7 the first two survive
C22_Witness ==
    /\ RagReturned
    /\ Len(input.matches) = 3
    /\ input.matches[1].score = 857
    /\ input.matches[2].score = 701
    /\ input.matches[3].score = 700
    /\ taskResult["rag_agent"][1].value.sources = <<"S1", "S2">>
    /\ taskResult["rag_agent"][1].value.response =
          <<"S1", ":", "\n", "T1", "\n", "\n", "S2", ":", "\n", "T2">>

\* C23: no state written during one process_query call remains stored in the
\* orchestrator or agent objects where a later call or a metrics read can
\* observe it: whenever a call is about to start, the agent objects are as
\* they were constructed.
C23_CallLeavesObjectsUnchanged ==
    pc = "idle" => agentObj = [a \in Agents |-> NewAgent]

\* the error texts raised in this call: by the agents' process calls and by
\* the verification and chunking calls
RaisedTexts ==
    {procOut[a][1].msg : a \in {x \in Agents : ProcessRaised(x)}}
    \cup (IF vOut.kind = "raise" THEN {vOut.msg} ELSE {})
    \cup (IF cOut.kind = "raise" THEN {cOut.msg} ELSE {})

\* an agent response, and a completion outcome, with its error text erased
ErasedResponses == [i \in 1..Len(agentResponses) |->
                       [agentResponses[i] EXCEPT !.error = <<>>]]
ErasedCall(out) == [out EXCEPT !.msg = ""]

\* C24: the returned messages never carry a backend error text, and two runs
\* that differ only in the error texts of failing agents, of the verification
\* or chunking call or of the store return the same messages: the messages are
\* what the call computes from its inputs with every error text erased.
C24_NoErrorTextInMessages ==
    pc \in {"save_user", "save_assistant", "done"} =>
        /\ \A i \in 1..Len(messages) : \A e \in RaisedTexts : ~Occurs(e, messages[i])
        /\ messages =
              GenerateConversationalResponse(
                  VerifyResponses(ErasedResponses, ErasedCall(vOut)).text,
                  ErasedCall(cOut)).value
        /\ pc = "done" => result[1].messages = messages

\* all four agents, the verification call, the chunking call and both saves
\* failed, and the one message returned is the apology
C24_Witness ==
    /\ pc = "done"
    /\ useAll
    /\ Cardinality(RaisedTexts) >= 4
    /\ vOut = CompRaise("rate limit exceeded")
    /\ cOut = CompRaise("completion timeout")
    /\ ~saveLog[1].ok
    /\ ~saveLog[2].ok
    /\ result[1].messages = <<Apology>>

\* C25: a ManyChat webhook request that lacks subscriber_id or user_messages
\* is answered with HTTP 400 naming the missing field, and no background
\* task is scheduled for it.
C25_MissingFieldIs400 ==
    (/\ input.kind = "webhook"
     /\ output.kind = "response"
     /\ input.json_ok
     /\ \/ input.subscriber_id \in {"<missing>", ""}
        \/ /\ input.user_messages \in {"<missing>", ""}
           /\ input.user_messages = "<missing>" =>
                 input.AI_user_messages \in {"<missing>", ""}) =>
        /\ output.status = 400
        /\ output.detail = (IF input.subscriber_id \in {"<missing>", ""}
                            THEN <<"Missing subscriber_id">>
                            ELSE <<"Missing user_messages">>)
        /\ output.scheduled = <<>>

\* C26: for every message and every max_length >= 1, each chunk returned by
\* _split_message has length at most max_length.
C26_ChunkWithinLimit ==
    output.kind = "chunks" =>
        \A i \in 1..Len(output.chunks) : Len(output.chunks[i]) <= input.max_length

\* a message with spaces was split into several chunks, one of them full
C26_Witness ==
    /\ output.kind = "chunks"
    /\ Len(output.chunks) >= 2
    /\ \E i \in 1..Len(input.message) : input.message[i] = " "
    /\ \E i \in 1..Len(output.chunks) : Len(output.chunks[i]) = input.max_length

\* ceil(L / max_length) chunks, all of max_length characters but the last
HardSplit ==
    LET L == Len(input.message)
        n == (L + input.max_length - 1) \div input.max_length
    IN  /\ Len(output.chunks) = n
        /\ \A i \in 1..(n - 1) : Len(output.chunks[i]) = input.max_length
        /\ Len(output.chunks[n]) = L - (n - 1) * input.max_length

\* C27 as stated: a message longer than max_length with no space and no
\* newline is hard-split into ceil(L / max_length) chunks of exactly
\* max_length characters except possibly the last.
C27_HardSplit ==
    (/\ output.kind = "chunks"
     /\ Len(input.message) > input.max_length
     /\ \A i \in 1..Len(input.message) : input.message[i] \notin {" ", "\n"}) =>
        HardSplit

\* C27 amended: the hard split is exact for a message that holds no
\* whitespace character at all; 250 letters at max_length 100 give chunks of
\* 100, 100 and 50.
C27_HardSplitNoWhitespace ==
    /\ (/\ output.kind = "chunks"
        /\ Len(input.message) > input.max_length
        /\ \A i \in 1..Len(input.message) : ~IsSpace(input.message[i])) =>
           HardSplit
    /\ (/\ output.kind = "chunks"
        /\ Len(input.message) = 250
        /\ input.max_length = 100) =>
           /\ Len(output.chunks) = 3
           /\ Len(output.chunks[1]) = 100
           /\ Len(output.chunks[2]) = 100
           /\ Len(output.chunks[3]) = 50

\* the 250 letters of the test were split
C27_Witness ==
    /\ output.kind = "chunks"
    /\ Len(input.message) = 250
    /\ Len(output.chunks) = 3

\* what the slot of agent a must hold: the response of a when a succeeded
\* with a non-empty response, else the placeholder
SlotOwed(a, placeholder) ==
    LET own == {i \in 1..Len(agentResponses) :
                   /\ agentResponses[i].agent = AgentName(a)
                   /\ agentResponses[i].success
                   /\ agentResponses[i].response # <<>>}
    IN  IF own = {} THEN placeholder
        ELSE agentResponses[CHOOSE i \in own : TRUE].response

\* C28: in the verification step each of the four prompt slots holds the
\* response of its own agent when that agent succeeded with a non-empty
\* response and otherwise its fixed placeholder; a failed agent's output
\* fills no slot and no response is routed into another agent's slot.
C28_SlotsHoldOwnAgent ==
    pc = "verify" =>
        /\ slots.rag = SlotOwed("rag_agent", <<"No scripture database results">>)
        /\ slots.web = SlotOwed("web_agent", <<"No web search results">>)
        /\ slots.gemini = SlotOwed("gemini_agent", <<"No Gemini response">>)
        /\ slots.context = SlotOwed("context_agent", <<"No conversation history">>)
        /\ \A i \in 1..Len(agentResponses) :
              ~agentResponses[i].success =>
                  \A k \in {"rag", "web", "gemini", "context"} :
                      slots[k] # agentResponses[i].error

\* verification began with one agent failed, one slot on its placeholder and
\* two slots filled from two different agents
C28_Witness ==
    /\ pc = "verify"
    /\ \E i \in 1..Len(agentResponses) : ~agentResponses[i].success
    /\ slots.rag = <<"No scripture database results">>
    /\ slots.web # <<"No web search results">>
    /\ slots.gemini # <<"No Gemini response">>
    /\ slots.web # slots.gemini

\* the generative agent ran on the text of the run and returned an answer
GeminiReturned ==
    /\ input.kind = "backend"
    /\ input.agent = "gemini_agent"
    /\ input.outcome = "given"
    /\ input.text # <<>>
    /\ taskResult["gemini_agent"] # <<>>

\* the number of phrases of words that occur in the lower-cased answer
DistinctMatches(words) ==
    Cardinality({i \in 1..Len(words) :
                    Contains(LowerText(Strip(input.text)), words[i])})

\* C29: the General-Knowledge confidence equals clamp(70 - 10 h + 10 a, 0,
\* 100), h and a being the numbers of distinct hedging and assertive phrases
\* that occur in the lower-cased response; a phrase that occurs several times
\* counts once.
C29_ConfidenceFormula ==
    GeminiReturned =>
        LET r == taskResult["gemini_agent"][1].value
            h == DistinctMatches(UncertaintyWords)
            a == DistinctMatches(DefinitiveWords)
            raw == 70 - 10 * h + 10 * a
        IN  /\ r.success
            /\ r.confidence = (IF raw < 0 THEN 0 ELSE IF raw > 100 THEN 100 ELSE raw)

\* one hedging phrase, written in capitals only or written twice, lowered the
\* confidence to 60
C29_Witness ==
    /\ GeminiReturned
    /\ DistinctMatches(UncertaintyWords) = 1
    /\ DistinctMatches(DefinitiveWords) = 0
    /\ \/ \A i \in 1..Len(UncertaintyWords) :
             ~Contains(input.text, UncertaintyWords[i])
       \/ \E i \in 1..Len(UncertaintyWords) :
             input.text = UncertaintyWords[i] \o <<" ">> \o UncertaintyWords[i] \o <<" ">>
    /\ taskResult["gemini_agent"][1].value.confidence = 60

\* C30 as stated: the Scripture-Search confidence is round(top_score x 100),
\* the nearest whole number to a hundred times the score of the highest-ranked
\* surviving passage, and 0 with the fixed no-results response when no
\* passage survives.
C30_ConfidenceRounded ==
    RagReturned =>
        LET r == taskResult["rag_agent"][1].value
        IN  IF SurvivingRanks = <<>>
            THEN r.confidence = 0 /\ r.response = NoScriptureResponse
            ELSE LET top == input.matches[SurvivingRanks[1]].score * 100
                     d == r.confidence * 1000 - top
                 IN  2 * d <= 1000 /\ 2 * d >= 0 - 1000

\* C30 amended: the confidence is top_score x 100 with its fraction cut off,
\* and 0 with the fixed no-results response when no passage survives.
C30_ConfidenceTruncated ==
    RagReturned =>
        LET r == taskResult["rag_agent"][1].value
        IN  IF SurvivingRanks = <<>>
            THEN r.confidence = 0 /\ r.response = NoScriptureResponse
            ELSE LET top == input.matches[SurvivingRanks[1]].score * 100
                 IN  /\ r.confidence * 1000 <= top
                     /\ top < (r.confidence + 1) * 1000

\* the best match scored 0.857 and the confidence is 85
C30_Witness ==
    /\ RagReturned
    /\ input.matches # <<>>
    /\ input.matches[1].score = 857
    /\ taskResult["rag_agent"][1].value.confidence = 85

\* C37: _split_message never returns an empty-string chunk for a non-empty
\* message, including a message longer than max_length that begins with a
\* space.
C37_NoEmptyChunk ==
    (output.kind = "chunks" /\ input.message # <<>>) =>
        \A i \in 1..Len(output.chunks) : output.chunks[i] # <<>>

\* the characters of s that are not whitespace, in order
NoWhitespace(s) == SelectSeq(s, LAMBDA c : ~IsSpace(c))

\* the chunks one after the other
RECURSIVE ConcatChunks(_)
ConcatChunks(chunks) ==
    IF chunks = <<>> THEN <<>>
    ELSE Head(chunks) \o ConcatChunks(Tail(chunks))

\* C38: _split_message drops only whitespace: the chunks joined, with all
\* whitespace removed, equal the message with all whitespace removed.
C38_OnlyWhitespaceDropped ==
    output.kind = "chunks" =>
        NoWhitespace(ConcatChunks(output.chunks)) = NoWhitespace(input.message)

\* a message of letters and whitespace was split, and whitespace was dropped
C38_Witness ==
    /\ output.kind = "chunks"
    /\ Len(output.chunks) >= 2
    /\ Len(NoWhitespace(input.message)) >= 3
    /\ Len(ConcatChunks(output.chunks)) < Len(input.message)

\* C36: every string in the messages list returned by process_query is
\* non-empty after trimming, on the chunking success path and on both
\* fallback paths.
C36_MessagesNonEmpty ==
    result # <<>> =>
        \A i \in 1..Len(result[1].messages) : Strip(result[1].messages[i]) # <<>>

\* C32: after any sequence of execute calls on one agent instance,
\* get_metrics describes the most recent call: whenever it reports success it
\* reports no error, also when an earlier execute on the instance failed.
C32_MetricsOfLastCall ==
    \A a \in Agents :
        taskResult[a] # <<>> =>
            LET m == GetMetrics(a, agentObj[a])
                last == taskResult[a][1].value
            IN  /\ m.success = last.success
                /\ m.error = last.error
                /\ m.success => m.error = <<>>

\* C33: a save_message call that fails part-way, after the user or the
\* conversation row was added, returns False and leaves the store unchanged:
\* no row and no message_count or last_interaction update of the call is
\* kept.
C33_FailedSaveLeavesNoTrace ==
    (/\ output.kind = "save"
     /\ output.raised
     /\ output.session # output.before) =>
        /\ ~output.ok
        /\ db = output.before

\* the commit of a first message failed: the session held a new user, a new
\* conversation and the message, and the tables are empty as before
C33_Witness ==
    /\ output.kind = "save"
    /\ output.raised
    /\ output.before = EmptyDb
    /\ Len(output.session.users) = 1
    /\ Len(output.session.conversations) = 1
    /\ Len(output.session.messages) = 1
    /\ db = EmptyDb

\* C34: after any sequence of save_message calls the store holds at most one
\* User per subscriber_id and at most one active Conversation per user, and
\* every conversation's message_count equals the number of Message rows
\* stored for it.
C34_StoreInvariants ==
    /\ \A i, j \in 1..Len(db.users) :
          db.users[i].subscriber_id = db.users[j].subscriber_id => i = j
    /\ \A i, j \in 1..Len(db.conversations) :
          (/\ db.conversations[i].user_id = db.conversations[j].user_id
           /\ db.conversations[i].is_active
           /\ db.conversations[j].is_active) => i = j
    /\ \A i \in 1..Len(db.conversations) :
          db.conversations[i].message_count =
              Cardinality({k \in 1..Len(db.messages) :
                  db.messages[k].conversation_id = db.conversations[i].id})

\* two subscribers have saved messages, one of them twice, and a call failed
C34_Witness ==
    /\ pc = "store"
    /\ Len(db.users) = 2
    /\ \E i \in 1..Len(db.conversations) : db.conversations[i].message_count = 2
    /\ \E k \in 1..Len(saveLog) : ~saveLog[k].ok

\* the saves the store accepted, oldest first
AcceptedSaves == SelectSeq(saveLog, LAMBDA m : m.ok)

\* C35: for any interleaving of concurrent process_query calls, each call's
\* user-role message and assistant-role message are stored consecutively: no
\* message of another call is saved between them.
C35_TurnsStoredTogether ==
    (input.kind = "concurrent") =>
        /\ Len(db.messages) = Len(AcceptedSaves)
        /\ \A k \in 1..Len(AcceptedSaves) :
              /\ db.messages[k].role = AcceptedSaves[k].role
              /\ db.messages[k].content = AcceptedSaves[k].content
        /\ \A i, k \in 1..Len(saveLog) :
              (i < k /\ saveLog[i].call = saveLog[k].call) =>
                  /\ k = i + 1
                  /\ saveLog[i].role = "user"
                  /\ saveLog[k].role = "assistant"

\* two calls of one subscriber were in flight together, the second one
\* finished first, and four messages are stored
C35_Witness ==
    /\ input.kind = "concurrent"
    /\ input.subscribers[1] = input.subscribers[2]
    /\ \A c \in {1, 2} : pc[c] = "done"
    /\ Len(db.messages) = 4
    /\ saveLog[1].call = 2

\* the chunks send_messages has to send: those of the first message, then
\* those of the second, and so on
ChunksInListOrder ==
    ConcatChunks([i \in 1..Len(input.messages) |->
                     SplitMessage(input.messages[i], 1500)])

\* C31: send_messages sends the chunks of the given messages strictly in list
\* order, stops at the first failed send without attempting any later chunk,
\* and returns True exactly when every chunk was sent successfully.
C31_SendInOrderStopAtFailure ==
    output.kind = "sending" =>
        LET n == Len(output.attempts)
        IN  /\ n <= Len(ChunksInListOrder)
            /\ \A k \in 1..n : output.attempts[k].body = ChunksInListOrder[k]
            /\ \A k \in 1..(n - 1) : output.attempts[k].ok
            /\ output.returned = <<TRUE>> <=>
                  /\ pc = "returned"
                  /\ n = Len(ChunksInListOrder)
                  /\ \A k \in 1..n : output.attempts[k].ok
            /\ output.returned = <<FALSE>> <=>
                  /\ pc = "returned"
                  /\ n >= 1
                  /\ ~output.attempts[n].ok
            /\ pc = "returned" => output.returned # <<>>

\* of two messages the first was split in two chunks and sent, the first
\* chunk of the second failed, and its later chunk was never attempted
C31_Witness ==
    /\ output.kind = "sending"
    /\ pc = "returned"
    /\ output.returned = <<FALSE>>
    /\ Len(input.messages) = 2
    /\ Len(output.final) = 4
    /\ Len(output.attempts) = 3

=============================================================================
